---- MODULE Spec2Model ----
(***************************************************************************)
(* The mutation engine of scripts/modify_als.py: a batch of change         *)
(* requests applied to the element tree of an Ableton Live Set, then the   *)
(* tree serialized once.                                                   *)
(*                                                                         *)
(* XML attribute values and JSON strings are TLA+ strings; the conversions *)
(* the code makes on them (upper, strip, split, int, float, str) are       *)
(* computed character by character.  A float is held in fixed point: an    *)
(* amplitude in units of 1e-9, a pan position in units of 1e-4, a JSON     *)
(* number in units of 1e-3.                                                *)
(***************************************************************************)
EXTENDS Integers, Sequences, FiniteSets, TLC

VARIABLES
    doc,      \* the element tree: root / tracks_el of main()
    pc,       \* position of main(): "start", "apply" (the loop), "exit"
    todo,     \* number of requests of the batch not yet applied
    batch,    \* the requests handed to apply_change so far, in order
    res,      \* what apply_change gave for the last of them: the lines it
              \* returned, or that it raised
    descs,    \* all_descriptions of main()
    errors,   \* errors of main()
    output,   \* the documents written to output_path, in order
    status,   \* exit status of the process, -1 while it runs
    calc      \* a call of one of the pure functions (unit codec, grading):
              \* its arguments and, once made, its result; <<>> in main()

vars == <<doc, pc, todo, batch, res, descs, errors, output, status, calc>>

----------------------------------------------------------------------------
(* Bounds of the model *)

\* longest batch of change requests
MaxBatch == 2

\* the dB values at and below -70 that are encoded: -70 - DbSpan .. -70
DbSpan == 30

\* the largest pan position that is encoded
MaxPanPos == 50

----------------------------------------------------------------------------
(* Strings *)

LowerAlpha == "abcdefghijklmnopqrstuvwxyz"
UpperAlpha == "ABCDEFGHIJKLMNOPQRSTUVWXYZ"
Digits == "0123456789"

Ch(s, i) == SubSeq(s, i, i)

\* index of the one-character string c in s, 0 when absent
IndexOf(c, s) ==
    LET hits == {i \in 1..Len(s) : Ch(s, i) = c}
    IN  IF hits = {} THEN 0 ELSE CHOOSE i \in hits : \A j \in hits : i <= j

UpperCh(c) ==
    LET i == IndexOf(c, LowerAlpha)
    IN  IF i = 0 THEN c ELSE Ch(UpperAlpha, i)

RECURSIVE Upper(_)
Upper(s) == IF Len(s) = 0 THEN "" ELSE UpperCh(Ch(s, 1)) \o Upper(SubSeq(s, 2, Len(s)))

RECURSIVE LStrip(_)
LStrip(s) ==
    IF Len(s) > 0 /\ Ch(s, 1) = " " THEN LStrip(SubSeq(s, 2, Len(s))) ELSE s

RECURSIVE RStrip(_)
RStrip(s) ==
    IF Len(s) > 0 /\ Ch(s, Len(s)) = " " THEN RStrip(SubSeq(s, 1, Len(s) - 1)) ELSE s

Strip(s) == LStrip(RStrip(s))

StartsWith(s, p) == Len(s) >= Len(p) /\ SubSeq(s, 1, Len(p)) = p

EndsWith(s, p) == Len(s) >= Len(p) /\ SubSeq(s, Len(s) - Len(p) + 1, Len(s)) = p

\* Python's `p in s` on strings
Contains(s, p) ==
    \E i \in 1..(Len(s) - Len(p) + 1) : SubSeq(s, i, i + Len(p) - 1) = p

\* s.split("/")
RECURSIVE Split(_)
Split(s) ==
    LET i == IndexOf("/", s)
    IN  IF i = 0 THEN <<s>>
        ELSE <<SubSeq(s, 1, i - 1)>> \o Split(SubSeq(s, i + 1, Len(s)))

IsDigits(s) == Len(s) > 0 /\ \A i \in 1..Len(s) : IndexOf(Ch(s, i), Digits) > 0

RECURSIVE DigitsVal(_)
DigitsVal(s) ==
    IF Len(s) = 0 THEN 0
    ELSE 10 * DigitsVal(SubSeq(s, 1, Len(s) - 1)) + (IndexOf(Ch(s, Len(s)), Digits) - 1)

RECURSIVE Pow10(_)
Pow10(k) == IF k = 0 THEN 1 ELSE 10 * Pow10(k - 1)

RECURSIVE NatStr(_)
NatStr(n) ==
    IF n < 10 THEN Ch(Digits, n + 1)
    ELSE NatStr(n \div 10) \o Ch(Digits, (n % 10) + 1)

\* str(n) of an int
IntStr(n) == IF n < 0 THEN "-" \o NatStr(-n) ELSE NatStr(n)

\* the text without an optional leading sign, and the sign
Unsigned(s) ==
    IF Len(s) > 0 /\ Ch(s, 1) \in {"-", "+"} THEN SubSeq(s, 2, Len(s)) ELSE s
SignOf(s) == IF Len(s) > 0 /\ Ch(s, 1) = "-" THEN -1 ELSE 1

\* int(s): [ok, v]; ok is FALSE where Python raises ValueError.
\* t is the text without its sign
IntOf(t, sign) ==
    IF IsDigits(t) THEN [ok |-> TRUE, v |-> sign * DigitsVal(t)]
    ELSE [ok |-> FALSE, v |-> 0]

ParseInt(s) == IntOf(Unsigned(Strip(s)), SignOf(Strip(s)))

\* the first d characters of s, padded with zeros to length d
RECURSIVE PadRight(_, _)
PadRight(s, d) ==
    IF Len(s) >= d THEN SubSeq(s, 1, d) ELSE PadRight(s \o "0", d)

\* the digits before and after the decimal point
IntPart(t) == IF IndexOf(".", t) = 0 THEN t ELSE SubSeq(t, 1, IndexOf(".", t) - 1)
FracPart(t) == IF IndexOf(".", t) = 0 THEN "" ELSE SubSeq(t, IndexOf(".", t) + 1, Len(t))

DecimalOf(ip, fp, sign, d) ==
    IF /\ Len(ip) + Len(fp) > 0
       /\ ip = "" \/ IsDigits(ip)
       /\ fp = "" \/ IsDigits(fp)
    THEN [ok |-> TRUE, v |-> sign * (DigitsVal(ip) * Pow10(d) + DigitsVal(PadRight(fp, d)))]
    ELSE [ok |-> FALSE, v |-> 0]

UnsignedFloat(t, sign, d) == DecimalOf(IntPart(t), FracPart(t), sign, d)

\* float(s) in units of 10^-d (digits beyond the d-th are dropped):
\* [ok, v]; ok is FALSE where Python raises ValueError.  Decimal notation
\* only: [sign] digits [. digits] | [sign] . digits
ParseFloat(s, d) == UnsignedFloat(Unsigned(Strip(s)), SignOf(Strip(s)), d)

RECURSIVE StripZeros(_)
StripZeros(s) ==
    IF Len(s) > 1 /\ Ch(s, Len(s)) = "0" THEN StripZeros(SubSeq(s, 1, Len(s) - 1)) ELSE s

RECURSIVE PadLeft(_, _)
PadLeft(s, d) == IF Len(s) >= d THEN s ELSE PadLeft("0" \o s, d)

\* str(x) of a float x >= 0 held in units of 10^-d: shortest decimal, at
\* least one digit after the point
AbsStr(a, d) ==
    NatStr(a \div Pow10(d)) \o "." \o StripZeros(PadLeft(NatStr(a % Pow10(d)), d))

\* str(x) of a float x held in units of 10^-d
FloatStr(n, d) == IF n < 0 THEN "-" \o AbsStr(-n, d) ELSE AbsStr(n, d)

----------------------------------------------------------------------------
(* JSON values of a change request *)

JNull == [t |-> "null", s |-> "", n |-> 0]
JStr(s) == [t |-> "str", s |-> s, n |-> 0]
\* a JSON number with a fraction part, in units of 1e-3
JNum(n) == [t |-> "num", s |-> "", n |-> n]
JInt(n) == [t |-> "int", s |-> "", n |-> n]

\* str(v)
PyStr(v) ==
    CASE v.t = "null" -> "None"
      [] v.t = "str" -> v.s
      [] v.t = "num" -> FloatStr(v.n, 3)
      [] OTHER -> IntStr(v.n)

\* the number in units of 1e-3
Milli(v) == IF v.t = "int" THEN 1000 * v.n ELSE v.n

----------------------------------------------------------------------------
(* Unit codec *)

\* amplitudes are held in units of 1e-9 (digits beyond are dropped)
AmpDigits == 9
\* pan positions are held in units of 1e-4
PanDigits == 4

\* 0.0003162277571, "Ableton's -inf"
SilenceFloor == 316227

\* 10 ** (db / 20.0), db in units of 1e-3, on the dB values of the model
Pow10Db(mdb) ==
    CASE mdb = -69999 -> 316264
      [] mdb = -69990 -> 316592
      [] mdb = -60000 -> 1000000
      [] mdb = -12000 -> 251188643
      [] mdb = -6000 -> 501187233
      [] mdb = -3000 -> 707945784
      [] mdb = 0 -> 1000000000
      [] mdb = 3000 -> 1412537544
      [] mdb = 6000 -> 1995262314

\* a dB value: finite, in units of 1e-3, or float("-inf")
Db(m) == [inf |-> FALSE, m |-> m]
NegInf == [inf |-> TRUE, m |-> 0]

\* 0.0003163: at or below it a stored amplitude is read as -inf
DecodeFloor == 316300

\* 20 * math.log10(v), rounded to 1e-3, on the amplitudes of the model
Log10Db(amp) ==
    CASE amp = 316250 -> -69999
      [] amp = 316264 -> -69999
      [] amp = 316592 -> -69990
      [] amp = 1000000 -> -60000
      [] amp = 251188643 -> -12000
      [] amp = 500000000 -> -6021
      [] amp = 501187233 -> -6000
      [] amp = 707945784 -> -3000
      [] amp = 1000000000 -> 0
      [] amp = 1412537544 -> 3000
      [] amp = 1995262314 -> 6000

\* 20 * math.log10(old_val) if old_val > 0.0003163 else float("-inf")
LinearDb(amp) == IF amp > DecodeFloor THEN Db(Log10Db(amp)) ELSE NegInf

\* f"{db:+.1f}": sign, one decimal (half to even); "-inf" for -inf
Signed1(db) ==
    IF db.inf THEN "-inf"
    ELSE LET a == IF db.m < 0 THEN -db.m ELSE db.m
             q == a \div 100
             r == a % 100
             t == IF r > 50 \/ (r = 50 /\ q % 2 = 1) THEN q + 1 ELSE q
         IN  (IF db.m < 0 THEN "-" ELSE "+")
             \o NatStr(t \div 10) \o "." \o NatStr(t % 10)

\* db_to_linear(db): [ok, v]; ok is FALSE where the comparison of a str
\* with -70 raises TypeError
db_to_linear(db) ==
    IF db.t = "null" THEN [ok |-> TRUE, v |-> SilenceFloor]
    ELSE IF db.t = "str" THEN [ok |-> FALSE, v |-> 0]
    ELSE IF Milli(db) <= -70000 THEN [ok |-> TRUE, v |-> SilenceFloor]
    ELSE [ok |-> TRUE, v |-> Pow10Db(Milli(db))]

\* pos / 50.0 and -(pos / 50.0) of pan_str_to_value, pos as float() gave it
PanOfPos(pos, sign) == [ok |-> pos.ok, v |-> sign * (pos.v \div 50)]

\* pan_str_to_value once pan_str is stripped
PanOfText(s) ==
    IF Upper(s) = "C" \/ s = "0" THEN [ok |-> TRUE, v |-> 0]
    ELSE IF EndsWith(Upper(s), "L")
    THEN PanOfPos(ParseFloat(SubSeq(s, 1, Len(s) - 1), PanDigits), -1)
    ELSE IF EndsWith(Upper(s), "R")
    THEN PanOfPos(ParseFloat(SubSeq(s, 1, Len(s) - 1), PanDigits), 1)
    ELSE ParseFloat(s, PanDigits)

\* pan_str_to_value(pan_str): [ok, v]; ok is FALSE where float() raises
\* ValueError
pan_str_to_value(pan) == PanOfText(Strip(PyStr(pan)))

\* DB_LINEAR_PARAMS
DB_LINEAR_PARAMS ==
    { <<"Compressor2", "Threshold">>, <<"Compressor2", "OutputGain">>,
      <<"Gate", "Threshold">>, <<"Gate", "Return">> }

----------------------------------------------------------------------------
(* Document model *)

(* An element below a device is named by its path of tags from the device. *)
(* A device is its tag, the Id values of the Id-bearing elements of its    *)
(* subtree in document order (iter()), and for each element of the subtree *)
(* its Value attribute: <<>> when it has none, <<v>> when it has one.      *)
Device(tag, ids, nodes) == [tag |-> tag, ids |-> ids, nodes |-> nodes]

\* the elements of f, moved below the element at path prefix
At(prefix, f) ==
    [p \in {prefix \o q : q \in DOMAIN f} |-> f[SubSeq(p, Len(prefix) + 1, Len(p))]]

\* <name><Manual Value=v/></name>
Held(name, v) == (<<name>> :> <<>>) @@ (<<name, "Manual">> :> <<v>>)
\* <name Value=v/>
Bare(name, v) == (<<name>> :> <<v>>)
BandTag(i) == "Bands." \o NatStr(i)

\* an Eq8 with two of its bands written out, away from the defaults, some
\* parameters held in a Manual child and some as a bare attribute
Eq8Device(ids) ==
    Device("Eq8", ids,
        Held("On", "false")
        @@ (<<BandTag(0)>> :> <<>>)
        @@ (<<BandTag(0), "ParameterA">> :> <<>>)
        @@ At(<<BandTag(0), "ParameterA">>,
              Held("IsOn", "true") @@ Bare("Gain", "4.5") @@ Held("Q", "2.0"))
        @@ (<<BandTag(7)>> :> <<>>)
        @@ (<<BandTag(7), "ParameterB">> :> <<>>)
        @@ At(<<BandTag(7), "ParameterB">>,
              Bare("IsOn", "true") @@ Held("Gain", "-3")))

\* a Compressor2 away from the defaults, in both forms as well
CompressorDevice(ids) ==
    Device("Compressor2", ids,
        Bare("On", "false")
        @@ Held("Threshold", "0.25") @@ Bare("Ratio", "8")
        @@ Held("Attack", "1") @@ Bare("Release", "30")
        @@ Held("DryWet", "0.5") @@ Held("GainCompensation", "false"))

\* the Compressor2 of the master bus, every parameter in a Manual child
MasterCompressor(ids) ==
    Device("Compressor2", ids,
        Held("On", "true")
        @@ Held("Threshold", "0.5") @@ Held("Ratio", "4")
        @@ Held("Attack", "5") @@ Held("Release", "50")
        @@ Held("DryWet", "1") @@ Held("GainCompensation", "true"))

\* a device with no reset routine; SourceContext has neither value form
ReverbDevice(ids) ==
    Device("Reverb", ids,
        Held("On", "true") @@ Held("DecayTime", "1200")
        @@ (<<"SourceContext">> :> <<>>))

(* A track: its tag; EffectiveName's Value (<<>> without the element); the *)
(* Id values of its Id-bearing elements outside the devices, its own       *)
(* first; TrackGroupId; DeviceChain/Mixer and in it Volume/Manual,         *)
(* Pan/Manual, Sends and for each holder Send/Manual, each <<>> when       *)
(* absent; DeviceChain/DeviceChain/Devices and the devices in it.          *)
Track(tag, name, ids, group, mixer, volume, pan, hasSends, sends, hasChain, chain) ==
    [tag |-> tag, name |-> name, ids |-> ids, group |-> group, mixer |-> mixer,
     volume |-> volume, pan |-> pan, hasSends |-> hasSends, sends |-> sends,
     hasChain |-> hasChain, chain |-> chain]

(* The input document.  Id values are unique, one is no integer, the       *)
(* largest integer is outside the tracks.  Bus has no DeviceChain at all,  *)
(* the only send holder of Bass has no Send/Manual.                        *)
InputDoc ==
    [ids |-> <<"x1", "40">>,
     tracks |-> <<
        Track("AudioTrack", <<"Drums">>, <<"10", "11">>, 13, TRUE,
              <<"1">>, <<"0">>, TRUE, << <<"0.0003162277571">>, <<"0.5">> >>,
              TRUE, << Eq8Device(<<"20", "21">>), ReverbDevice(<<"22">>) >>),
        Track("MidiTrack", <<"Bass">>, <<"12">>, -1, TRUE,
              <<"0.5">>, <<"-0.36">>, TRUE, << <<>> >>,
              TRUE, << CompressorDevice(<<"23", "24", "25">>) >>),
        Track("GroupTrack", <<"Bus">>, <<"13">>, -1, FALSE,
              <<>>, <<>>, FALSE, <<>>, FALSE, <<>>),
        Track("ReturnTrack", <<"A-Reverb">>, <<"14">>, -1, TRUE,
              <<"1">>, <<"0">>, FALSE, <<>>, TRUE, <<>>) >>,
     masters |-> <<
        Track("MainTrack", <<"Main">>, <<"15">>, -1, TRUE,
              <<"1">>, <<"0">>, FALSE, <<>>,
              TRUE, << MasterCompressor(<<"30", "31">>) >>) >>]

----------------------------------------------------------------------------
(* Navigation *)

\* a track is named by its place: k > 0 is the k-th child of Tracks,
\* k < 0 the (-k)-th master element (MainTrack / MasterTrack) of LiveSet
GetTrack(d, ref) == IF ref > 0 THEN d.tracks[ref] ELSE d.masters[-ref]

PutTrack(d, ref, t) ==
    IF ref > 0 THEN [d EXCEPT !.tracks[ref] = t] ELSE [d EXCEPT !.masters[-ref] = t]

\* the elements 1..n in order
Upto(n) == [i \in 1..n |-> i]

\* the first element of a non-empty set of integers
Least(S) == CHOOSE i \in S : \A j \in S : i <= j

\* lst[i] of a Python list of length n, as a place 1..n; 0 where Python
\* raises IndexError
PyIndex(n, i) ==
    IF 0 <= i /\ i < n THEN i + 1
    ELSE IF i < 0 /\ -n <= i THEN n + i + 1
    ELSE 0

\* list.insert(i, x): the place 1..n+1 the new element gets
PyInsertAt(n, i) ==
    IF i >= n THEN n + 1
    ELSE IF i >= 0 THEN i + 1
    ELSE IF n + i >= 0 THEN n + i + 1
    ELSE 1

\* the new element put in the place of the one at k
InsertAt_over(seq, k, x) == SubSeq(seq, 1, k - 1) \o <<x>> \o SubSeq(seq, k + 1, Len(seq))

InsertAt(seq, k, x) == SubSeq(seq, 1, k - 1) \o <<x>> \o SubSeq(seq, k, Len(seq))

\* find_tracks_by_name: the places of the matches, in document order
find_tracks_by_name(tracks, name, track_type) ==
    LET Match(k) ==
            /\ tracks[k].name # <<>>
            /\ tracks[k].name[1] = name
            /\ (track_type = <<>> \/ tracks[k].tag = track_type[1])
    IN  SelectSeq(Upto(Len(tracks)), Match)

RECURSIVE Flatten(_)
Flatten(seqs) == IF seqs = <<>> THEN <<>> ELSE Head(seqs) \o Flatten(Tail(seqs))

\* the Id values of a track's subtree, devices included
TrackIds(t) == t.ids \o Flatten([k \in 1..Len(t.chain) |-> t.chain[k].ids])

\* the Id value of every Id-bearing element of the document
AllIds(d) ==
    d.ids \o Flatten([k \in 1..Len(d.tracks) |-> TrackIds(d.tracks[k])])
          \o Flatten([k \in 1..Len(d.masters) |-> TrackIds(d.masters[k])])

RECURSIVE MaxOf(_)
MaxOf(S) ==
    IF S = {} THEN 0
    ELSE LET x == CHOOSE y \in S : TRUE
             m == MaxOf(S \ {x})
         IN  IF x > m THEN x ELSE m

\* max over the Id values int() accepts, 0 to start with
MaxIntOf(all) ==
    MaxOf({ParseInt(all[k]).v : k \in {j \in 1..Len(all) : ParseInt(all[j]).ok}})

\* find_max_id: Id values int() rejects are passed over
find_max_id(d) == MaxIntOf(AllIds(d))

\* the devices of the document in document order, as <<track, place>>
DevicePlaces(d) ==
    Flatten([k \in 1..Len(d.tracks) |->
                [j \in 1..Len(d.tracks[k].chain) |-> <<k, j>>]])
    \o Flatten([k \in 1..Len(d.masters) |->
                [j \in 1..Len(d.masters[k].chain) |-> <<-k, j>>]])

\* find_donor_device: the place of the first device of the tag, <<>> for None
find_donor_device(d, device_tag) ==
    LET Is(pl) == GetTrack(d, pl[1]).chain[pl[2]].tag = device_tag
        found == SelectSeq(DevicePlaces(d), Is)
    IN  IF found = <<>> THEN <<>> ELSE <<Head(found)>>

\* a clone that keeps the Ids of its donor: add_device without remap_ids
remap_ids_kept(device, start_id) == device

\* remap_ids counting before it sets: the first Id given is start_id + 1
remap_ids_counting_first(device, start_id) ==
    [device EXCEPT !.ids = [k \in 1..Len(device.ids) |-> IntStr(start_id + k)]]

\* remap_ids: the Id-bearing elements get start_id, start_id + 1, ...
remap_ids(device, start_id) ==
    [device EXCEPT !.ids = [k \in 1..Len(device.ids) |-> IntStr(start_id + k - 1)]]

\* range(8) of reset_eq8_defaults
NumBands == 8

\* reset_eq8_defaults
reset_eq8_defaults(device) ==
    LET Reset(p, name) ==
            \E i \in 0..(NumBands - 1) : \E ps \in {"ParameterA", "ParameterB"} :
                p = <<BandTag(i), ps, name, "Manual">>
    IN  [device EXCEPT !.nodes =
            [p \in DOMAIN device.nodes |->
                IF Reset(p, "IsOn") THEN <<"false">>
                ELSE IF Reset(p, "Gain") THEN <<"0">>
                ELSE IF Reset(p, "Q") THEN <<"0.7071067">>
                ELSE device.nodes[p]]]

\* the defaults of reset_compressor_defaults
CompressorDefaults ==
    << <<"Threshold", FloatStr(db_to_linear(JInt(0)).v, AmpDigits)>>,
       <<"Ratio", "2">>, <<"Attack", "10">>, <<"Release", "100">>,
       <<"DryWet", "1">>, <<"GainCompensation", "true">> >>

\* reset_compressor_defaults
reset_compressor_defaults(device) ==
    [device EXCEPT !.nodes =
        [p \in DOMAIN device.nodes |->
            IF \E k \in 1..Len(CompressorDefaults) : p = <<CompressorDefaults[k][1], "Manual">>
            THEN <<CompressorDefaults[
                      CHOOSE k \in 1..Len(CompressorDefaults) :
                          p = <<CompressorDefaults[k][1], "Manual">>][2]>>
            ELSE device.nodes[p]]]

\* DEVICE_RESETTERS.get(device_tag), applied
ResetDevice(device_tag, device) ==
    IF device_tag = "Eq8" THEN reset_eq8_defaults(device)
    ELSE IF device_tag = "Compressor2" THEN reset_compressor_defaults(device)
    ELSE device

\* find_device without the occurrence index: the first device of the tag
find_device_first(track, device_tag, device_index) ==
    IF ~track.hasChain THEN [raised |-> FALSE, place |-> 0]
    ELSE LET Is(k) == track.chain[k].tag = device_tag
             matches == SelectSeq(Upto(Len(track.chain)), Is)
         IN  IF matches # <<>>
             THEN [raised |-> FALSE, place |-> matches[1]]
             ELSE [raised |-> FALSE, place |-> 0]

\* find_device: [raised, place]; place 0 for None; raised where
\* matches[device_index] raises IndexError
find_device(track, device_tag, device_index) ==
    IF ~track.hasChain THEN [raised |-> FALSE, place |-> 0]
    ELSE LET Is(k) == track.chain[k].tag = device_tag
             matches == SelectSeq(Upto(Len(track.chain)), Is)
         IN  IF device_index < Len(matches)
             THEN IF PyIndex(Len(matches), device_index) = 0
                  THEN [raised |-> TRUE, place |-> 0]
                  ELSE [raised |-> FALSE,
                        place |-> matches[PyIndex(Len(matches), device_index)]]
             ELSE [raised |-> FALSE, place |-> 0]

\* set_param_value looking at the element's own Value attribute before its
\* Manual child
set_param_value_attribute_first(device, param_path, text) ==
    LET parts == Split(param_path)
        manual == parts \o <<"Manual">>
    IN  IF \E k \in 1..Len(parts) : SubSeq(parts, 1, k) \notin DOMAIN device.nodes
        THEN [ok |-> FALSE, device |-> device]
        ELSE IF device.nodes[parts] # <<>>
        THEN [ok |-> TRUE, device |-> [device EXCEPT !.nodes[parts] = <<text>>]]
        ELSE IF manual \in DOMAIN device.nodes
        THEN [ok |-> TRUE, device |-> [device EXCEPT !.nodes[manual] = <<text>>]]
        ELSE [ok |-> FALSE, device |-> device]

\* set_param_value: [ok, device]; text is str(value)
set_param_value(device, param_path, text) ==
    LET parts == Split(param_path)
        manual == parts \o <<"Manual">>
    IN  IF \E k \in 1..Len(parts) : SubSeq(parts, 1, k) \notin DOMAIN device.nodes
        THEN [ok |-> FALSE, device |-> device]
        ELSE IF manual \in DOMAIN device.nodes
        THEN [ok |-> TRUE, device |-> [device EXCEPT !.nodes[manual] = <<text>>]]
        ELSE IF device.nodes[parts] # <<>>
        THEN [ok |-> TRUE, device |-> [device EXCEPT !.nodes[parts] = <<text>>]]
        ELSE [ok |-> FALSE, device |-> device]

----------------------------------------------------------------------------
(* apply_change *)

(* What apply_change gives for one request: the document as it leaves it,  *)
(* the list it returns, and whether it raised instead of returning.  A     *)
(* line is an error (it starts with "ERROR:") or a description; kind names *)
(* the message, name is the track or device the message names, old and new *)
(* are the stored text before and after.                                   *)
Returned(d, lines) == [doc |-> d, lines |-> lines, raised |-> FALSE]
Raised(d) == [doc |-> d, lines |-> <<>>, raised |-> TRUE]
Err(kind, name) == [error |-> TRUE, kind |-> kind, name |-> name, old |-> "", new |-> ""]
Desc(kind, name, old, new) ==
    [error |-> FALSE, kind |-> kind, name |-> name, old |-> old, new |-> new]

\* the track lookup knowing the master element under the tag MainTrack only
ResolveTrack_main_only(d, change) ==
    LET track_name == change.track_name
        Fail(line) == [ok |-> FALSE, ref |-> 0, raised |-> FALSE, lines |-> <<line>>]
        Hit(ref) == [ok |-> TRUE, ref |-> ref, raised |-> FALSE, lines |-> <<>>]
    IN  IF Upper(track_name) \in {"MASTER", "MAIN"}
        THEN LET main == {k \in 1..Len(d.masters) : d.masters[k].tag = "MainTrack"}
                 master == {k \in 1..Len(d.masters) : d.masters[k].tag = "MasterTrack"}
             IN  IF main # {} THEN Hit(-Least(main))
                 ELSE Fail(Err("no_master", ""))
        ELSE IF StartsWith(Upper(track_name), "RETURN:")
        THEN LET return_name == SubSeq(track_name, 8, Len(track_name))
                 hits == {k \in 1..Len(d.tracks) :
                            /\ d.tracks[k].tag = "ReturnTrack"
                            /\ d.tracks[k].name # <<>>
                            /\ Contains(d.tracks[k].name[1], return_name)}
             IN  IF hits # {} THEN Hit(Least(hits))
                 ELSE Fail(Err("no_return_track", return_name))
        ELSE LET matches == find_tracks_by_name(d.tracks, track_name, change.track_type)
                 track_index == change.track_index
             IN  IF matches = <<>> THEN Fail(Err("no_track", track_name))
                 ELSE IF track_index >= Len(matches)
                 THEN Fail(Err("track_index", track_name))
                 ELSE IF PyIndex(Len(matches), track_index) = 0
                 THEN [ok |-> FALSE, ref |-> 0, raised |-> TRUE, lines |-> <<>>]
                 ELSE Hit(matches[PyIndex(Len(matches), track_index)])

\* the track lookup taking, for RETURN:, a track of any kind
ResolveTrack_any_kind(d, change) ==
    LET track_name == change.track_name
        Fail(line) == [ok |-> FALSE, ref |-> 0, raised |-> FALSE, lines |-> <<line>>]
        Hit(ref) == [ok |-> TRUE, ref |-> ref, raised |-> FALSE, lines |-> <<>>]
    IN  IF Upper(track_name) \in {"MASTER", "MAIN"}
        THEN LET main == {k \in 1..Len(d.masters) : d.masters[k].tag = "MainTrack"}
                 master == {k \in 1..Len(d.masters) : d.masters[k].tag = "MasterTrack"}
             IN  IF main # {} THEN Hit(-Least(main))
                 ELSE IF master # {} THEN Hit(-Least(master))
                 ELSE Fail(Err("no_master", ""))
        ELSE IF StartsWith(Upper(track_name), "RETURN:")
        THEN LET return_name == SubSeq(track_name, 8, Len(track_name))
                 hits == {k \in 1..Len(d.tracks) :
                            /\ d.tracks[k].name # <<>>
                            /\ Contains(d.tracks[k].name[1], return_name)}
             IN  IF hits # {} THEN Hit(Least(hits))
                 ELSE Fail(Err("no_return_track", return_name))
        ELSE LET matches == find_tracks_by_name(d.tracks, track_name, change.track_type)
                 track_index == change.track_index
             IN  IF matches = <<>> THEN Fail(Err("no_track", track_name))
                 ELSE IF track_index >= Len(matches)
                 THEN Fail(Err("track_index", track_name))
                 ELSE IF PyIndex(Len(matches), track_index) = 0
                 THEN [ok |-> FALSE, ref |-> 0, raised |-> TRUE, lines |-> <<>>]
                 ELSE Hit(matches[PyIndex(Len(matches), track_index)])

\* the target track of a request: [ok, ref, raised, lines]
ResolveTrack(d, change) ==
    LET track_name == change.track_name
        Fail(line) == [ok |-> FALSE, ref |-> 0, raised |-> FALSE, lines |-> <<line>>]
        Hit(ref) == [ok |-> TRUE, ref |-> ref, raised |-> FALSE, lines |-> <<>>]
    IN  IF Upper(track_name) \in {"MASTER", "MAIN"}
        THEN LET main == {k \in 1..Len(d.masters) : d.masters[k].tag = "MainTrack"}
                 master == {k \in 1..Len(d.masters) : d.masters[k].tag = "MasterTrack"}
             IN  IF main # {} THEN Hit(-Least(main))
                 ELSE IF master # {} THEN Hit(-Least(master))
                 ELSE Fail(Err("no_master", ""))
        ELSE IF StartsWith(Upper(track_name), "RETURN:")
        THEN LET return_name == SubSeq(track_name, 8, Len(track_name))
                 hits == {k \in 1..Len(d.tracks) :
                            /\ d.tracks[k].tag = "ReturnTrack"
                            /\ d.tracks[k].name # <<>>
                            /\ Contains(d.tracks[k].name[1], return_name)}
             IN  IF hits # {} THEN Hit(Least(hits))
                 ELSE Fail(Err("no_return_track", return_name))
        ELSE LET matches == find_tracks_by_name(d.tracks, track_name, change.track_type)
                 track_index == change.track_index
             IN  IF matches = <<>> THEN Fail(Err("no_track", track_name))
                 ELSE IF track_index >= Len(matches)
                 THEN Fail(Err("track_index", track_name))
                 ELSE IF PyIndex(Len(matches), track_index) = 0
                 THEN [ok |-> FALSE, ref |-> 0, raised |-> TRUE, lines |-> <<>>]
                 ELSE Hit(matches[PyIndex(Len(matches), track_index)])

\* a description with the message apply_change words for it, from the
\* track name on
Said(line, text) ==
    [error |-> line.error, kind |-> line.kind, name |-> line.name,
     old |-> line.old, new |-> line.new, text |-> text]

\* f": Volume {old_db:+.1f} -> {db_val:+.1f} dB" (the arrow is U+2192 in
\* the code), " (group)" before it for group_volume
VolumeText(kind, old_val, db_val) ==
    (IF kind = "group_volume" THEN " (group)" ELSE "")
    \o ": Volume " \o Signed1(LinearDb(old_val))
    \o " -> " \o Signed1(Db(Milli(db_val))) \o " dB"

\* the volume branch reading the old value after the new one is set
StoreVolume_late(d, ref, track, change, kind, text) ==
    IF ~ParseFloat(track.volume[1], AmpDigits).ok THEN Raised(d)
    ELSE IF change.value.t = "null"
    THEN Raised(PutTrack(d, ref, [track EXCEPT !.volume = <<text>>]))
    ELSE Returned(PutTrack(d, ref, [track EXCEPT !.volume = <<text>>]),
                  <<Said(Desc(kind, change.track_name, text, text),
                         VolumeText(kind, ParseFloat(text, AmpDigits).v, change.value))>>)

\* target == "volume" and target == "group_volume", from vol_el on; text
\* is str(linear)
StoreVolume(d, ref, track, change, kind, text) ==
    IF ~ParseFloat(track.volume[1], AmpDigits).ok THEN Raised(d)
    ELSE IF change.value.t = "null"
    THEN Raised(PutTrack(d, ref, [track EXCEPT !.volume = <<text>>]))
    ELSE Returned(PutTrack(d, ref, [track EXCEPT !.volume = <<text>>]),
                  <<Said(Desc(kind, change.track_name, track.volume[1], text),
                         VolumeText(kind, ParseFloat(track.volume[1], AmpDigits).v,
                                    change.value))>>)

\* group_volume refusing a track that is no group track
SetVolume_groups_only(d, ref, track, change, kind) ==
    IF kind = "group_volume" /\ track.tag # "GroupTrack"
    THEN Returned(d, <<Err("no_group", change.track_name)>>)
    ELSE IF ~db_to_linear(change.value).ok \/ ~track.mixer THEN Raised(d)
    ELSE IF track.volume = <<>> THEN Returned(d, <<>>)
    ELSE StoreVolume(d, ref, track, change, kind,
                     FloatStr(db_to_linear(change.value).v, AmpDigits))

\* target == "volume", and target == "group_volume" with its own message
SetVolume(d, ref, track, change, kind) ==
    IF ~db_to_linear(change.value).ok \/ ~track.mixer THEN Raised(d)
    ELSE IF track.volume = <<>> THEN Returned(d, <<>>)
    ELSE StoreVolume(d, ref, track, change, kind,
                     FloatStr(db_to_linear(change.value).v, AmpDigits))

\* the pan branch moving the stored position by the requested one
StorePan_relative(d, ref, track, change, pan_val) ==
    IF ~pan_val.ok \/ ~track.mixer THEN Raised(d)
    ELSE IF track.pan = <<>> THEN Returned(d, <<>>)
    ELSE IF ~ParseFloat(track.pan[1], PanDigits).ok THEN Raised(d)
    ELSE Returned(PutTrack(d, ref,
                      [track EXCEPT !.pan =
                          <<FloatStr(ParseFloat(track.pan[1], PanDigits).v + pan_val.v, PanDigits)>>]),
                  <<Desc("pan", change.track_name, track.pan[1],
                         FloatStr(ParseFloat(track.pan[1], PanDigits).v + pan_val.v, PanDigits))>>)

\* target == "pan", from mixer.find on; pan_val is what pan_str_to_value gave
StorePan(d, ref, track, change, pan_val) ==
    IF ~pan_val.ok \/ ~track.mixer THEN Raised(d)
    ELSE IF track.pan = <<>> THEN Returned(d, <<>>)
    ELSE IF ~ParseFloat(track.pan[1], PanDigits).ok THEN Raised(d)
    ELSE Returned(PutTrack(d, ref, [track EXCEPT !.pan = <<FloatStr(pan_val.v, PanDigits)>>]),
                  <<Desc("pan", change.track_name, track.pan[1],
                         FloatStr(pan_val.v, PanDigits))>>)

\* target == "pan"
SetPan(d, ref, track, change) ==
    StorePan(d, ref, track, change, pan_str_to_value(change.value))

\* the send branch writing the level to every holder of the track
StoreSend_all(d, ref, track, change, k, text) ==
    IF k = 0 THEN Raised(d)
    ELSE IF track.sends[k] = <<>> THEN Returned(d, <<>>)
    ELSE IF ~ParseFloat(track.sends[k][1], AmpDigits).ok THEN Raised(d)
    ELSE Returned(PutTrack(d, ref,
                      [track EXCEPT !.sends =
                          [i \in 1..Len(track.sends) |->
                              IF track.sends[i] = <<>> THEN <<>> ELSE <<text>>]]),
                  <<Desc("send", change.track_name, track.sends[k][1], text)>>)

\* target == "send", from holders[send_index] on; k is the place of the
\* holder, text is str(linear)
StoreSend(d, ref, track, change, k, text) ==
    IF k = 0 THEN Raised(d)
    ELSE IF track.sends[k] = <<>> THEN Returned(d, <<>>)
    ELSE IF ~ParseFloat(track.sends[k][1], AmpDigits).ok THEN Raised(d)
    ELSE IF change.value.t = "null"
    THEN Raised(PutTrack(d, ref, [track EXCEPT !.sends[k] = <<text>>]))
    ELSE Returned(PutTrack(d, ref, [track EXCEPT !.sends[k] = <<text>>]),
                  <<Desc("send", change.track_name, track.sends[k][1], text)>>)

\* target == "send"
SetSend(d, ref, track, change) ==
    IF ~db_to_linear(change.value).ok \/ ~track.mixer THEN Raised(d)
    ELSE IF ~track.hasSends THEN Returned(d, <<>>)
    ELSE IF ~(change.send_index < Len(track.sends)) THEN Returned(d, <<>>)
    ELSE StoreSend(d, ref, track, change,
                   PyIndex(Len(track.sends), change.send_index),
                   FloatStr(db_to_linear(change.value).v, AmpDigits))

\* float(param_val) of add_device, in units of 1e-3: a JSON value, with
\* JStr("") standing for the raise
FloatOf(value) ==
    IF value.t = "str"
    THEN IF ParseFloat(value.s, 3).ok THEN JNum(ParseFloat(value.s, 3).v) ELSE JStr("")
    ELSE IF value.t = "null" THEN JStr("")
    ELSE value

\* str(db_to_linear(db)): [ok, text]
LinearText(db) ==
    [ok |-> db_to_linear(db).ok, text |-> FloatStr(db_to_linear(db).v, AmpDigits)]

\* the text set_param_value writes for a requested value: dB to linear for
\* the parameters of DB_LINEAR_PARAMS, str(value) otherwise.  [ok, text];
\* ok is FALSE where the conversion raises.  parsed: the value goes through
\* float() first (add_device)
ParamText(device_tag, param_name, value, parsed) ==
    IF <<device_tag, param_name>> \in DB_LINEAR_PARAMS
    THEN IF parsed THEN LinearText(FloatOf(value)) ELSE LinearText(value)
    ELSE [ok |-> TRUE, text |-> PyStr(value)]

\* the stored text apply_change reads for the description, <<>> for None
OldAt(device, path) ==
    IF path \notin DOMAIN device.nodes THEN <<>>
    ELSE IF path \o <<"Manual">> \in DOMAIN device.nodes
    THEN device.nodes[path \o <<"Manual">>]
    ELSE device.nodes[path]

OldValue(device, param_name) == OldAt(device, Split(param_name))

\* target == "device_param", from set_param_value on
StoreDeviceParam(d, ref, track, change, place, old_value, text, set) ==
    IF set.ok
    THEN Returned(PutTrack(d, ref, [track EXCEPT !.chain[place] = set.device]),
                  <<Desc("device_param", change.track_name,
                         IF old_value = <<>> THEN "?" ELSE old_value[1], text)>>)
    ELSE Returned(d, <<Err("no_param", change.param_name)>>)

\* target == "device_param", from the dB conversion on; value is the text
\* to write, old_value the stored text
WriteDeviceParam(d, ref, track, change, place, value, old_value) ==
    IF ~value.ok THEN Raised(d)
    ELSE IF /\ old_value # <<>>
            /\ <<change.device_tag, change.param_name>> \in DB_LINEAR_PARAMS
            /\ ~ParseFloat(old_value[1], AmpDigits).ok
    THEN Raised(d)
    ELSE StoreDeviceParam(d, ref, track, change, place, old_value, value.text,
            set_param_value(track.chain[place], change.param_name, value.text))

\* target == "device_param", from the device found on
SetParamOf(d, ref, track, change, found) ==
    IF found.raised THEN Raised(d)
    ELSE IF found.place = 0 THEN Returned(d, <<Err("no_device", change.device_tag)>>)
    ELSE WriteDeviceParam(d, ref, track, change, found.place,
            ParamText(change.device_tag, change.param_name, change.param_value, FALSE),
            OldValue(track.chain[found.place], change.param_name))

\* target == "device_param"
SetDeviceParam(d, ref, track, change) ==
    SetParamOf(d, ref, track, change,
               find_device(track, change.device_tag, change.device_index))

\* one turn of the loop over params.items(); actual_val is the text to
\* write, set what set_param_value gave
RECURSIVE ApplyParams(_, _, _)
ParamApplied(device_tag, params, actual_val, set) ==
    IF ~actual_val.ok
    THEN [ok |-> FALSE, raised |-> TRUE, device |-> set.device, path |-> Head(params)[1]]
    ELSE IF ~set.ok
    THEN [ok |-> FALSE, raised |-> FALSE, device |-> set.device, path |-> Head(params)[1]]
    ELSE ApplyParams(set.device, device_tag, Tail(params))

\* the loop over params.items() of add_device: [ok, raised, device, path]
ApplyParams(device, device_tag, params) ==
    IF params = <<>>
    THEN [ok |-> TRUE, raised |-> FALSE, device |-> device, path |-> ""]
    ELSE ParamApplied(device_tag, params,
            ParamText(device_tag, Head(params)[1], Head(params)[2], TRUE),
            set_param_value(device, Head(params)[1],
                ParamText(device_tag, Head(params)[1], Head(params)[2], TRUE).text))

\* on_el.set("Value", "true") where the device has On/Manual
ForceOn(device) ==
    IF <<"On", "Manual">> \in DOMAIN device.nodes
    THEN [device EXCEPT !.nodes[<<"On", "Manual">>] = <<"true">>]
    ELSE device

\* the clone add_device builds from the donor, before the requested
\* parameters: deepcopy, remap_ids, the resetter, On/Manual forced to true
NewDevice(d, donor, device_tag) ==
    ForceOn(ResetDevice(device_tag, remap_ids(donor, find_max_id(d) + 1)))

\* the place 1..n+1 the new device gets in a chain of n devices
InsertPlace(n, position) ==
    IF position = -1 \/ position >= n THEN n + 1 ELSE PyInsertAt(n, position)

\* add_device putting the clone into the chain before its requested
\* parameters are looked at: the error of a missing parameter then leaves
\* the clone in the document
InsertDevice_first(d, ref, track, change, applied) ==
    IF applied.raised THEN Raised(d)
    ELSE IF ~track.hasChain
    THEN Returned(d, <<Err(IF applied.ok THEN "no_chain" ELSE "no_new_param",
                           IF applied.ok THEN change.track_name ELSE applied.path)>>)
    ELSE Returned(
            PutTrack(d, ref,
                [track EXCEPT !.chain =
                    InsertAt(@, InsertPlace(Len(track.chain), change.position), applied.device)]),
            IF applied.ok
            THEN <<Desc("add_device", change.track_name, "",
                        IntStr(InsertPlace(Len(track.chain), change.position) - 1))>>
            ELSE <<Err("no_new_param", applied.path)>>)

\* target == "add_device", from the loop over the parameters on; applied is
\* what the loop gave
InsertDevice(d, ref, track, change, applied) ==
    IF applied.raised THEN Raised(d)
    ELSE IF ~applied.ok THEN Returned(d, <<Err("no_new_param", applied.path)>>)
    ELSE IF ~track.hasChain THEN Returned(d, <<Err("no_chain", change.track_name)>>)
    ELSE Returned(
            PutTrack(d, ref,
                [track EXCEPT !.chain =
                    InsertAt(@, InsertPlace(Len(track.chain), change.position), applied.device)]),
            <<Desc("add_device", change.track_name, "",
                   IntStr(InsertPlace(Len(track.chain), change.position) - 1))>>)

\* add_device without copy.deepcopy: remap, reset and the requested
\* parameters work on the donor itself, which is then inserted
AddFrom_shared(d, ref, track, change, donor) ==
    IF donor = <<>> THEN Returned(d, <<Err("no_donor", change.device_tag)>>)
    ELSE LET applied ==
                 ApplyParams(
                     NewDevice(d, GetTrack(d, donor[1][1]).chain[donor[1][2]], change.device_tag),
                     change.device_tag, change.params)
             shared ==
                 PutTrack(d, donor[1][1],
                     [GetTrack(d, donor[1][1]) EXCEPT !.chain[donor[1][2]] = applied.device])
         IN  InsertDevice(shared, ref, GetTrack(shared, ref), change, applied)

\* add_device with remap_ids run on the target track in place of the clone
AddFrom_track_remapped(d, ref, track, change, donor) ==
    IF donor = <<>> THEN Returned(d, <<Err("no_donor", change.device_tag)>>)
    ELSE InsertDevice(
            PutTrack(d, ref,
                [track EXCEPT !.ids = [k \in 1..Len(track.ids) |-> IntStr(find_max_id(d) + k)]]),
            ref,
            [track EXCEPT !.ids = [k \in 1..Len(track.ids) |-> IntStr(find_max_id(d) + k)]],
            change,
            ApplyParams(
                ForceOn(ResetDevice(change.device_tag,
                                    GetTrack(d, donor[1][1]).chain[donor[1][2]])),
                change.device_tag, change.params))

\* target == "add_device", from the donor found on
AddFrom(d, ref, track, change, donor) ==
    IF donor = <<>> THEN Returned(d, <<Err("no_donor", change.device_tag)>>)
    ELSE InsertDevice(d, ref, track, change,
            ApplyParams(
                NewDevice(d, GetTrack(d, donor[1][1]).chain[donor[1][2]], change.device_tag),
                change.device_tag, change.params))

\* target == "add_device"
AddDevice(d, ref, track, change) ==
    AddFrom(d, ref, track, change, find_donor_device(d, change.device_tag))

\* apply_change once the track is resolved: the branch of the target
ApplyTarget(d, ref, track, change) ==
    IF change.target = "volume" THEN SetVolume(d, ref, track, change, "volume")
    ELSE IF change.target = "pan" THEN SetPan(d, ref, track, change)
    ELSE IF change.target = "send" THEN SetSend(d, ref, track, change)
    ELSE IF change.target = "device_param" THEN SetDeviceParam(d, ref, track, change)
    ELSE IF change.target = "add_device" THEN AddDevice(d, ref, track, change)
    ELSE IF change.target = "group_volume"
    THEN SetVolume(d, ref, track, change, "group_volume")
    ELSE Returned(d, <<>>)

\* apply_change raising where the track is not found, in place of the
\* returned error
ApplyAt_raising(d, change, at) ==
    IF at.raised \/ ~at.ok THEN Raised(d)
    ELSE ApplyTarget(d, at.ref, GetTrack(d, at.ref), change)

\* apply_change, at being the track the request resolves to
ApplyAt(d, change, at) ==
    IF at.raised THEN Raised(d)
    ELSE IF ~at.ok THEN Returned(d, at.lines)
    ELSE ApplyTarget(d, at.ref, GetTrack(d, at.ref), change)

\* apply_change(root, tracks_el, change)
apply_change(d, change) == ApplyAt(d, change, ResolveTrack(d, change))

----------------------------------------------------------------------------
(* Change requests *)

\* a request with every optional key absent: the defaults of change.get
Change(track_name, target) ==
    [track_name |-> track_name, track_type |-> <<>>, track_index |-> 0,
     target |-> target, value |-> JNull, send_index |-> 0,
     device_tag |-> "", device_index |-> 0, param_name |-> "",
     param_value |-> JNull, position |-> -1, params |-> <<>>]

VolumeChange(track_name, value) == [Change(track_name, "volume") EXCEPT !.value = value]
PanChange(track_name, value) == [Change(track_name, "pan") EXCEPT !.value = value]
SendChange(track_name, send_index, value) ==
    [Change(track_name, "send") EXCEPT !.send_index = send_index, !.value = value]
ParamChange(track_name, device_tag, device_index, param_name, param_value) ==
    [Change(track_name, "device_param") EXCEPT
        !.device_tag = device_tag, !.device_index = device_index,
        !.param_name = param_name, !.param_value = param_value]
AddChange(track_name, device_tag, position, params) ==
    [Change(track_name, "add_device") EXCEPT
        !.device_tag = device_tag, !.position = position, !.params = params]

\* the requests a batch is made of
VolumeChanges ==
    {VolumeChange(n, JNum(-6000)) : n \in {"Drums", "Master", "Nope"}}
    \cup {[VolumeChange("Drums", JNum(-6000)) EXCEPT !.track_index = 1],
          VolumeChange("Drums", JStr("loud")),
          VolumeChange("Bus", JInt(0)),
          [Change("Drums", "group_volume") EXCEPT !.value = JInt(3)]}

PanChanges ==
    {PanChange("Drums", JStr(t)) : t \in {"18R", "xyz"}}

SendChanges ==
    {SendChange("Drums", i, JNum(-6000)) : i \in {-3, -1, 1, 2}}
    \cup {SendChange("Bass", 0, JInt(0)), SendChange("RETURN:Rev", 0, JInt(0))}

ParamChanges ==
    {ParamChange("Bass", "Compressor2", i, "Ratio", JInt(4)) : i \in {-2, -1, 0, 1}}
    \cup {ParamChange("Drums", "Eq8", 0, "Bands.0/ParameterA/Gain", JNum(1500)),
          ParamChange("Bass", "Eq8", 0, "Bands.7/ParameterB/Gain", JInt(6)),
          ParamChange("Drums", "Reverb", 0, "Freeze/On", JInt(1))}

AddChanges ==
    {AddChange("Bass", tag, -1, <<>>) : tag \in {"Eq8", "Compressor2", "Gate"}}
    \cup {AddChange("Drums", "Compressor2", p, <<>>) : p \in {-2, 1, 5}}
    \cup {AddChange("Bass", "Compressor2", 0, << <<"Ratio", JInt(4)>>, <<"Threshold", JStr("-12")>> >>),
          AddChange("Bass", "Eq8", 0, << <<"Bands.0/ParameterA/Gain", JInt(6)>>, <<"Bands.3/ParameterA/Gain", JInt(6)>> >>),
          AddChange("Bass", "Compressor2", 0, << <<"Threshold", JStr("loud")>> >>),
          AddChange("Bus", "Reverb", -1, <<>>)}

Changes == VolumeChanges \cup PanChanges \cup SendChanges \cup ParamChanges \cup AddChanges

----------------------------------------------------------------------------
(* main *)

Init ==
    /\ doc = InputDoc
    /\ pc = "start"
    /\ todo = 0
    /\ batch = <<>>
    /\ res = [lines |-> <<>>, raised |-> FALSE]
    /\ descs = <<>>
    /\ errors = <<>>
    /\ output = <<>>
    /\ status = -1
    /\ calc = <<>>

\* the input file, its XML or the changes file cannot be read, or the
\* document has no Tracks element: exit 1 before any request
ReadFails ==
    /\ pc = "start"
    /\ pc' = "exit"
    /\ status' = 1
    /\ UNCHANGED <<doc, todo, batch, res, descs, errors, output, calc>>

\* the changes list is empty or absent: exit 0, nothing written
NoChanges ==
    /\ pc = "start"
    /\ pc' = "exit"
    /\ status' = 0
    /\ UNCHANGED <<doc, todo, batch, res, descs, errors, output, calc>>

\* main() without the test of an empty list: the loop is entered with no
\* request as well
Begin_unchecked ==
    /\ pc = "start"
    /\ \E n \in 0..MaxBatch : todo' = n
    /\ pc' = "apply"
    /\ UNCHANGED <<doc, batch, res, descs, errors, output, status, calc>>

\* a batch of n requests is read
Begin ==
    /\ pc = "start"
    /\ \E n \in 1..MaxBatch : todo' = n
    /\ pc' = "apply"
    /\ UNCHANGED <<doc, batch, res, descs, errors, output, status, calc>>

\* the lines of a result main() files under errors, and under descriptions
ErrorLines(lines) == SelectSeq(lines, LAMBDA l : l.error)
DescLines(lines) == SelectSeq(lines, LAMBDA l : ~l.error)

\* one turn of the loop, for a request of the set changes: apply_change
\* returns and its lines are filed
ApplyFrom(changes) ==
    /\ pc = "apply"
    /\ todo > 0
    /\ \E change \in changes : \E r \in {apply_change(doc, change)} :
        /\ ~r.raised
        /\ doc' = r.doc
        /\ batch' = Append(batch, change)
        /\ res' = [lines |-> r.lines, raised |-> FALSE]
        /\ descs' = descs \o DescLines(r.lines)
        /\ errors' = errors \o ErrorLines(r.lines)
    /\ todo' = todo - 1
    /\ UNCHANGED <<pc, output, status, calc>>

Apply == ApplyFrom(Changes)

\* one turn of the loop, for a request of the set changes: apply_change
\* raises, nothing catches it, the process ends with a traceback
ApplyRaisesFrom(changes) ==
    /\ pc = "apply"
    /\ todo > 0
    /\ \E change \in changes : \E r \in {apply_change(doc, change)} :
        /\ r.raised
        /\ doc' = r.doc
        /\ batch' = Append(batch, change)
        /\ res' = [lines |-> <<>>, raised |-> TRUE]
    /\ pc' = "exit"
    /\ status' = 1
    /\ UNCHANGED <<todo, descs, errors, output, calc>>

ApplyRaises == ApplyRaisesFrom(Changes)

\* after the loop: the tree is serialized and written
Write ==
    /\ pc = "apply"
    /\ todo = 0
    /\ output' = Append(output, doc)
    /\ pc' = "exit"
    /\ status' = 0
    /\ UNCHANGED <<doc, todo, batch, res, descs, errors, calc>>

Next == ReadFails \/ NoChanges \/ Begin \/ Apply \/ ApplyRaises \/ Write

Spec == Init /\ [][Next]_vars

----------------------------------------------------------------------------
(* main on documents made for the track lookup: tracks that share a name, *)
(* a listed track that carries a reserved name, return tracks and other   *)
(* tracks whose names contain the same text, a track without Name, a      *)
(* track whose Mixer has neither Volume/Manual nor Pan/Manual; the master *)
(* element under both tag names, under the old one only, or absent.       *)

PlainTrack(tag, name, id) ==
    Track(tag, name, <<id>>, -1, TRUE, <<"1">>, <<"0">>, FALSE, <<>>, TRUE, <<>>)

NamedTracks ==
    << PlainTrack("AudioTrack", <<"Kick">>, "1"),
       PlainTrack("MidiTrack", <<"Kick">>, "2"),
       PlainTrack("AudioTrack", <<"Master">>, "3"),
       PlainTrack("AudioTrack", <<"Kick">>, "4"),
       PlainTrack("AudioTrack", <<"Reverb">>, "5"),
       PlainTrack("ReturnTrack", <<"A-Delay">>, "6"),
       PlainTrack("ReturnTrack", <<"B-Reverb">>, "7"),
       PlainTrack("ReturnTrack", <<"C-Reverb">>, "8"),
       PlainTrack("AudioTrack", <<>>, "9"),
       Track("AudioTrack", <<"Empty">>, <<"10">>, -1, TRUE, <<>>, <<>>,
             FALSE, <<>>, TRUE, <<>>) >>

NamedDocs ==
    { [ids |-> <<>>, tracks |-> NamedTracks, masters |-> m] :
        m \in { << PlainTrack("MasterTrack", <<"Master">>, "20"),
                   PlainTrack("MainTrack", <<"Main">>, "21") >>,
                << PlainTrack("MasterTrack", <<"Master">>, "20") >>,
                <<>> } }

NamedChanges ==
    {[VolumeChange("Kick", JNum(-6000)) EXCEPT !.track_index = i] : i \in {-4, -1, 0, 1, 3}}
    \cup {VolumeChange(n, JNum(-6000)) :
            n \in {"kick", "Kic", "Master", "main", "Nope",
                   "RETURN:Reverb", "return:Reverb", "RETURN:Kick", "Empty"}}
    \cup {[VolumeChange("Kick", JNum(-6000)) EXCEPT !.track_type = <<"MidiTrack">>],
          PanChange("Empty", JStr("18R")),
          [Change("Kick", "mute") EXCEPT !.value = JInt(1)]}

InitNamed ==
    /\ doc \in NamedDocs
    /\ pc = "start"
    /\ todo = 0
    /\ batch = <<>>
    /\ res = [lines |-> <<>>, raised |-> FALSE]
    /\ descs = <<>>
    /\ errors = <<>>
    /\ output = <<>>
    /\ status = -1
    /\ calc = <<>>

ApplyNamed == ApplyFrom(NamedChanges)

ApplyNamedRaises == ApplyRaisesFrom(NamedChanges)

NextNamed ==
    ReadFails \/ NoChanges \/ Begin \/ ApplyNamed \/ ApplyNamedRaises \/ Write

SpecNamed == InitNamed /\ [][NextNamed]_vars

----------------------------------------------------------------------------
(* The unit codec on its own: a value is encoded by modify_als.py and      *)
(* written as text, the text is decoded by parse_als.py.                   *)

\* parse_als.vol_to_db(value): <<>> for None, else the dB value
vol_to_db(value) ==
    IF ~ParseFloat(value, AmpDigits).ok THEN <<>>
    ELSE IF ParseFloat(value, AmpDigits).v <= DecodeFloor THEN <<NegInf>>
    ELSE <<Db(Log10Db(ParseFloat(value, AmpDigits).v))>>

\* f"{pos:.0f}" of pos = a / 200, a in units of 1e-4 of abs(v) * 50
Rounded0(a) ==
    IF a % 200 > 100 \/ (a % 200 = 100 /\ (a \div 200) % 2 = 1)
    THEN NatStr(a \div 200 + 1)
    ELSE NatStr(a \div 200)

\* pan_to_str from abs(v) < 0.01 on, v in units of 1e-4
PanStrOf(v) ==
    IF (IF v < 0 THEN -v ELSE v) < 100 THEN "C"
    ELSE Rounded0(IF v < 0 THEN -v ELSE v) \o (IF v < 0 THEN "L" ELSE "R")

\* pan_to_str with the direction taken from abs(v)
pan_to_str_abs(value) ==
    IF ~ParseFloat(value, PanDigits).ok THEN "N/A"
    ELSE PanStrOf(IF ParseFloat(value, PanDigits).v < 0
                  THEN -ParseFloat(value, PanDigits).v
                  ELSE ParseFloat(value, PanDigits).v)

\* parse_als.pan_to_str(value)
pan_to_str(value) ==
    IF ~ParseFloat(value, PanDigits).ok THEN "N/A"
    ELSE PanStrOf(ParseFloat(value, PanDigits).v)

\* a call: the argument, the text written for the encoded value (<<>>
\* before it is), what the decoder gave for the text (<<>> before it has)
Call(fn, arg, text) == [fn |-> fn, arg |-> arg, text |-> text, back |-> <<>>]

\* dB values to encode: undefined, values from -70 down, values above -70
DbValues ==
    {JNull} \cup {JInt(n) : n \in (-70 - DbSpan)..-70}
    \cup {JNum(m) : m \in {-69999, -69990, -60000, -12000, -6000, -3000, 0, 3000, 6000}}

\* stored amplitudes to decode
AmpTexts ==
    {"0.0003162277571", "0.00031625", "0.0003163", "0.000316592", "0.001",
     "0.5", "1", "0", "-0.5", "abc"}

\* pan strings to encode: C and the positions 0..MaxPanPos left and right
PanStrings ==
    {"C"} \cup {NatStr(n) \o side : n \in 0..MaxPanPos, side \in {"L", "R"}}

\* stored pan values to decode
PanTexts == {"0", "0.0", "0.005", "-0.005", "0.0099", "-0.0099", "abc"}

CodecCalls ==
    {Call("volume", db, <<>>) : db \in DbValues}
    \cup {Call("stored_volume", JNull, <<t>>) : t \in AmpTexts}
    \cup {Call("pan", JStr(p), <<>>) : p \in PanStrings}
    \cup {Call("stored_pan", JNull, <<t>>) : t \in PanTexts}

InitCodec ==
    /\ calc \in CodecCalls
    /\ doc = InputDoc
    /\ pc = "start"
    /\ todo = 0
    /\ batch = <<>>
    /\ res = [lines |-> <<>>, raised |-> FALSE]
    /\ descs = <<>>
    /\ errors = <<>>
    /\ output = <<>>
    /\ status = -1

\* linear = db_to_linear(db_val); vol_el.set("Value", str(linear))
EncodeDb ==
    /\ calc.fn = "volume"
    /\ calc.text = <<>>
    /\ db_to_linear(calc.arg).ok
    /\ calc' = [calc EXCEPT !.text = <<FloatStr(db_to_linear(calc.arg).v, AmpDigits)>>]
    /\ UNCHANGED <<doc, pc, todo, batch, res, descs, errors, output, status>>

\* vol_to_db of the stored text
DecodeDb ==
    /\ calc.fn \in {"volume", "stored_volume"}
    /\ calc.text # <<>>
    /\ calc.back = <<>>
    /\ calc' = [calc EXCEPT !.back = <<vol_to_db(calc.text[1])>>]
    /\ UNCHANGED <<doc, pc, todo, batch, res, descs, errors, output, status>>

\* pan_val = pan_str_to_value(pan_str); pan_el.set("Value", str(pan_val))
EncodePan ==
    /\ calc.fn = "pan"
    /\ calc.text = <<>>
    /\ pan_str_to_value(calc.arg).ok
    /\ calc' = [calc EXCEPT !.text = <<FloatStr(pan_str_to_value(calc.arg).v, PanDigits)>>]
    /\ UNCHANGED <<doc, pc, todo, batch, res, descs, errors, output, status>>

\* pan_to_str of the stored text
DecodePan ==
    /\ calc.fn \in {"pan", "stored_pan"}
    /\ calc.text # <<>>
    /\ calc.back = <<>>
    /\ calc' = [calc EXCEPT !.back = <<pan_to_str(calc.text[1])>>]
    /\ UNCHANGED <<doc, pc, todo, batch, res, descs, errors, output, status>>

NextCodec == EncodeDb \/ DecodeDb \/ EncodePan \/ DecodePan

SpecCodec == InitCodec /\ [][NextCodec]_vars

----------------------------------------------------------------------------
(* The overall grade of mix_standards.py: the six category scores, each    *)
(* an int in 0..100, are summed, the percentage of 600 is taken in         *)
(* floating point and cut to an int, and the int is graded.                *)

\* return max(0, min(100, score)): the largest category score
MaxScore == 100

\* len(categories)
NumCategories == 6

RECURSIVE SumOf(_)
SumOf(seq) == IF seq = <<>> THEN 0 ELSE Head(seq) + SumOf(Tail(seq))

RECURSIVE Pow2(_)
Pow2(k) == IF k = 0 THEN 1 ELSE 2 * Pow2(k - 1)

\* the least k with a * 2^k >= b, for 0 < a
RECURSIVE ShiftTo(_, _)
ShiftTo(a, b) == IF a >= b THEN 0 ELSE 1 + ShiftTo(2 * a, b)

\* floor(log2(n)), for 0 < n
RECURSIVE Log2(_)
Log2(n) == IF n < 2 THEN 0 ELSE 1 + Log2(n \div 2)

\* 2^k modulo b
RECURSIVE PowMod(_, _)
PowMod(k, b) == IF k = 0 THEN 1 % b ELSE (2 * PowMod(k - 1, b)) % b

\* long division of a by b, a < b: the remainder r after steps binary
\* digits of the quotient, and the last of the digits
Divide(a, b, steps) ==
    [r |-> (a * PowMod(steps, b)) % b,
     last |-> IF 2 * ((a * PowMod(steps - 1, b)) % b) >= b THEN 1 ELSE 0]

(* int((total / max_total) * 100) in IEEE double arithmetic, round to      *)
(* nearest even, for max_total = 100 * c.  With total = c * n + m,         *)
(* 0 < m < c, the product is n + m/c but for two roundings of relative     *)
(* size 2^-53: int() gives n.  With total = c * n the quotient             *)
(* q = fl(n / 100) has 53 digits; low is what long division leaves after   *)
(* them, in units of 1/max_total of the last digit of q, 2^(-k-52).  When  *)
(* q is rounded up, or exact, q * 100 >= n and int() gives n.  When q is   *)
(* rounded down, q * 100 = n - (low.r / c) * 2^(-k-52), and the product    *)
(* rounds to n unless that is more than half the gap below n,              *)
(* 2^(Log2(n)-53) (half of it for n a power of 2); then int() gives n - 1. *)
Percent(total, c) ==
    IF total = 0 \/ total % c # 0 THEN total \div c
    ELSE LET n == total \div c
             k == ShiftTo(total, 100 * c)
             low == Divide((total * Pow2(k)) % (100 * c), 100 * c, 52)
             up == \/ 2 * low.r > 100 * c
                   \/ (2 * low.r = 100 * c /\ low.last = 1)
             half == IF Pow2(Log2(n)) = n
                     THEN (c * Pow2(Log2(n) + k)) \div 4
                     ELSE (c * Pow2(Log2(n) + k)) \div 2
         IN  IF ~up /\ low.r > half THEN n - 1 ELSE n

\* overall_grade with > for >=
overall_grade_above(total_score) ==
    IF total_score > 85 THEN "A"
    ELSE IF total_score > 70 THEN "B"
    ELSE IF total_score > 55 THEN "C"
    ELSE IF total_score > 40 THEN "D"
    ELSE "F"

\* overall_grade(total_score): the letter
overall_grade(total_score) ==
    IF total_score >= 85 THEN "A"
    ELSE IF total_score >= 70 THEN "B"
    ELSE IF total_score >= 55 THEN "C"
    ELSE IF total_score >= 40 THEN "D"
    ELSE "F"

\* the scores of a run: the first any score, the others all 0 or 100, or
\* all 30
GradeCalls ==
    {[fn |-> "grade", scores |-> <<first>> \o rest, pct |-> <<>>, grade |-> <<>>] :
        first \in 0..MaxScore,
        rest \in [1..(NumCategories - 1) -> {0, MaxScore}]
                 \cup {[i \in 1..(NumCategories - 1) |-> 30]}}

InitGrade ==
    /\ calc \in GradeCalls
    /\ doc = InputDoc
    /\ pc = "start"
    /\ todo = 0
    /\ batch = <<>>
    /\ res = [lines |-> <<>>, raised |-> FALSE]
    /\ descs = <<>>
    /\ errors = <<>>
    /\ output = <<>>
    /\ status = -1

\* total = sum(...); max_total = len(categories) * 100;
\* pct = int((total / max_total) * 100)
TakePercent ==
    /\ calc.pct = <<>>
    /\ calc' = [calc EXCEPT !.pct = <<Percent(SumOf(calc.scores), NumCategories)>>]
    /\ UNCHANGED <<doc, pc, todo, batch, res, descs, errors, output, status>>

\* grade, label = overall_grade(pct)
TakeGrade ==
    /\ calc.pct # <<>>
    /\ calc.grade = <<>>
    /\ calc' = [calc EXCEPT !.grade = <<overall_grade(calc.pct[1])>>]
    /\ UNCHANGED <<doc, pc, todo, batch, res, descs, errors, output, status>>

NextGrade == TakePercent \/ TakeGrade

SpecGrade == InitGrade /\ [][NextGrade]_vars

----------------------------------------------------------------------------
(* Writing and reading one parameter of a device: set_param_value of       *)
(* modify_als.py, then get_param_value of parse_als.py on what it left.    *)

\* parse_als.get_param_value(element, param_name): <<>> for None
get_param_value(device, param_name) ==
    IF Split(param_name) \notin DOMAIN device.nodes THEN <<>>
    ELSE IF Split(param_name) \o <<"Manual">> \in DOMAIN device.nodes
    THEN device.nodes[Split(param_name) \o <<"Manual">>]
    ELSE device.nodes[Split(param_name)]

\* a device whose Threshold has a Value attribute of its own and a Manual
\* child, whose Return has the attribute only, whose Side has a Manual
\* child that has no Value yet, and whose Info has neither
GateDevice(ids) ==
    Device("Gate", ids,
        Held("On", "true")
        @@ (<<"Threshold">> :> <<"0.1">>) @@ (<<"Threshold", "Manual">> :> <<"0.5">>)
        @@ Bare("Return", "3")
        @@ (<<"Side">> :> <<>>) @@ (<<"Side", "Manual">> :> <<>>)
        @@ (<<"Info">> :> <<>>))

ParamDevices ==
    {Eq8Device(<<"20", "21">>), CompressorDevice(<<"23", "24", "25">>),
     ReverbDevice(<<"22">>), GateDevice(<<"26">>)}

\* parameter paths: of one step and of several, present and absent, ending
\* in an element of either form, of both, or of neither
ParamPaths ==
    {"On", "Threshold", "Ratio", "Return", "Side", "Info", "SourceContext", "Nope",
     "Bands.0/ParameterA/Gain", "Bands.0/ParameterA/IsOn", "Bands.0/ParameterA",
     "Bands.7/ParameterB/Gain", "Bands.3/ParameterA/Gain", "Bands.0/Missing/Gain",
     "Threshold/Manual"}

ParamCalls ==
    {[fn |-> "param", device |-> dev, path |-> p, text |-> t, set |-> <<>>, got |-> <<>>] :
        dev \in ParamDevices, p \in ParamPaths, t \in {"7", "true"}}

InitParam ==
    /\ calc \in ParamCalls
    /\ doc = InputDoc
    /\ pc = "start"
    /\ todo = 0
    /\ batch = <<>>
    /\ res = [lines |-> <<>>, raised |-> FALSE]
    /\ descs = <<>>
    /\ errors = <<>>
    /\ output = <<>>
    /\ status = -1

\* success = set_param_value(device, param_name, param_value)
SetParam ==
    /\ calc.set = <<>>
    /\ calc' = [calc EXCEPT !.set = <<set_param_value(calc.device, calc.path, calc.text)>>]
    /\ UNCHANGED <<doc, pc, todo, batch, res, descs, errors, output, status>>

\* get_param_value on the device as set_param_value left it
GetParam ==
    /\ calc.set # <<>>
    /\ calc.got = <<>>
    /\ calc' = [calc EXCEPT !.got = <<get_param_value(calc.set[1].device, calc.path)>>]
    /\ UNCHANGED <<doc, pc, todo, batch, res, descs, errors, output, status>>

NextParam == SetParam \/ GetParam

SpecParam == InitParam /\ [][NextParam]_vars

----------------------------------------------------------------------------
(* Vocabulary of the properties *)

\* the request handed to apply_change last
Cur == batch[Len(batch)]

\* the last request returned a description / returned an error
Succeeded ==
    batch # <<>> /\ ~res.raised /\ res.lines # <<>> /\ ~res.lines[1].error
Failed ==
    batch # <<>> /\ ~res.raised /\ res.lines # <<>> /\ res.lines[1].error

DeviceAt(d, pl) == GetTrack(d, pl[1]).chain[pl[2]]

PlaceSet(d) == {DevicePlaces(d)[k] : k \in 1..Len(DevicePlaces(d))}

IdsUnique(d) ==
    LET all == AllIds(d)
    IN  \A i, j \in 1..Len(all) : i # j => all[i] # all[j]

\* some add_device has put a clone into the document
SomeInserted(d) == find_max_id(d) > find_max_id(InputDoc)

\* the place of the clone put in last: the device that holds the largest Id
Newest(d) ==
    LET top == IntStr(find_max_id(d))
    IN  CHOOSE pl \in PlaceSet(d) :
            \E k \in 1..Len(DeviceAt(d, pl).ids) : DeviceAt(d, pl).ids[k] = top

\* the index a device has among the devices of its tag in its chain
OccIndex(track, place) ==
    Cardinality({k \in 1..(place - 1) : track.chain[k].tag = track.chain[place].tag})

\* the request names a track that does not exist
NamesNoTrack(d, change) ==
    LET at == ResolveTrack(d, change)
    IN  /\ ~at.ok
        /\ ~at.raised
        /\ at.lines[1].kind \in {"no_track", "no_return_track"}

Without(seq, k) == SubSeq(seq, 1, k - 1) \o SubSeq(seq, k + 1, Len(seq))

\* the loop of main() over a list of requests, from document d:
\* [doc, descs, errors, raised]
RECURSIVE RunFrom(_, _)
RunFrom(d, changes) ==
    IF changes = <<>>
    THEN [doc |-> d, descs |-> <<>>, errors |-> <<>>, raised |-> FALSE]
    ELSE LET r == apply_change(d, Head(changes))
             rest == RunFrom(r.doc, Tail(changes))
         IN  IF r.raised
             THEN [doc |-> r.doc, descs |-> <<>>, errors |-> <<>>, raised |-> TRUE]
             ELSE [doc |-> rest.doc,
                   descs |-> DescLines(r.lines) \o rest.descs,
                   errors |-> ErrorLines(r.lines) \o rest.errors,
                   raised |-> rest.raised]

----------------------------------------------------------------------------
(* Properties *)

\* C1: after any successful add_device request, and after any sequence of
\* them in one batch, no two Id-bearing elements of the document carry the
\* same Id value.
C1_IdsStayUnique == IdsUnique(doc)

\* two add_device requests of one batch have both put in their clone
C1_TwoInsertions ==
    /\ Len(batch) = 2
    /\ Len(descs) = 2
    /\ \A k \in 1..2 : descs[k].kind = "add_device"

\* C2: in a batch where exactly one request names a track that does not
\* exist and the others are requests that are applied with a description,
\* the run is, but for the one error reported, the run of the batch without
\* that request: same document, same descriptions, wherever the failing
\* request sits.
C2_OneMissingTrackIsolated ==
    \A k \in 1..Len(batch) :
        LET others == RunFrom(InputDoc, Without(batch, k))
        IN  ( /\ NamesNoTrack(doc, batch[k])
              /\ \A j \in 1..Len(batch) : j # k => ~NamesNoTrack(doc, batch[j])
              /\ ~others.raised
              /\ others.errors = <<>>
              /\ Len(others.descs) = Len(batch) - 1 )
            => /\ ~res.raised
               /\ doc = others.doc
               /\ descs = others.descs
               /\ Len(errors) = 1
               /\ errors[1].kind \in {"no_track", "no_return_track"}

\* a request on a missing track came first and the next one was applied
C2_AppliedAfterMissing ==
    /\ Len(batch) = 2
    /\ NamesNoTrack(doc, batch[1])
    /\ Succeeded
    /\ Len(errors) = 1

\* C3: whenever apply_change returns an error for a request, the document
\* is exactly as it was before that request.
C3_ErrorLeavesDocument ==
    [][ ( /\ Len(batch') = Len(batch) + 1
          /\ ~res'.raised
          /\ res'.lines # <<>>
          /\ res'.lines[1].error )
        => doc' = doc ]_vars

\* an add_device failed on its second requested parameter, after the clone
\* was built, remapped and given the first
C3_ErrorAfterClone ==
    /\ Failed
    /\ res.lines[1].kind = "no_new_param"
    /\ Len(Cur.params) = 2
    /\ res.lines[1].name = Cur.params[2][1]

\* C4: for every non-empty batch the document is serialized exactly once,
\* after the last request, also when requests failed, and what is written
\* is the document with every successful request applied.
C4_WrittenOnceAfterBatch ==
    /\ pc # "exit" => output = <<>>
    /\ (pc = "exit" /\ batch # <<>>) => output = <<doc>>

\* the value of the request cannot be encoded
Unencodable(change) ==
    \/ change.target = "pan" /\ ~pan_str_to_value(change.value).ok
    \/ /\ change.target \in {"volume", "send", "group_volume"}
       /\ change.value.t = "str"
       /\ ~ParseFloat(change.value.s, 3).ok

\* C5: a request whose value cannot be encoded is reported as a failure of
\* that request only; the rest of the batch is applied and the output is
\* written.
C5_EncodingFailureReported ==
    \A k \in 1..Len(batch) :
        Unencodable(batch[k])
        => /\ k = Len(batch) => Failed
           /\ pc = "exit" => output = <<doc>>

\* the request addresses, by track, tag and occurrence index, the clone the
\* last add_device put into the document
AddressesNewest(d, change) ==
    /\ change.target = "device_param"
    /\ SomeInserted(d)
    /\ ResolveTrack(d, change).ok
    /\ ResolveTrack(d, change).ref = Newest(d)[1]
    /\ change.device_tag = DeviceAt(d, Newest(d)).tag
    /\ change.device_index = OccIndex(GetTrack(d, Newest(d)[1]), Newest(d)[2])

\* C6: a device_param request that addresses the device an earlier
\* add_device of the batch inserted finds that device, changes its
\* parameter and no other device, the donor included.
C6_LaterRequestSeesInsertedDevice ==
    [][ ( /\ Len(batch') = Len(batch) + 1
          /\ AddressesNewest(doc, batch'[Len(batch')])
          /\ ~res'.raised )
        => /\ res'.lines # <<>>
           /\ res'.lines[1].kind # "no_device"
           /\ \A pl \in PlaceSet(doc) :
                pl # Newest(doc) => DeviceAt(doc', pl) = DeviceAt(doc, pl)
           /\ ~res'.lines[1].error =>
                OldValue(DeviceAt(doc', Newest(doc)), batch'[Len(batch')].param_name)
                    = <<res'.lines[1].new>> ]_vars

\* an add_device, then a device_param that addressed the clone and set it
C6_ParamOfInsertedSet ==
    /\ Len(batch) = 2
    /\ batch[1].target = "add_device"
    /\ AddressesNewest(doc, batch[2])
    /\ Succeeded

\* where the donor of an add_device is after the request: one place
\* further when the clone went into its chain at or before it
DonorAfter(d, donor, after, inserted) ==
    IF inserted /\ Newest(after)[1] = donor[1] /\ Newest(after)[2] <= donor[2]
    THEN <<donor[1], donor[2] + 1>>
    ELSE donor

\* C7: an add_device request, successful or not, leaves the donor device as
\* it was: every Id and every value of its subtree.
C7_DonorUntouched ==
    [][ ( /\ Len(batch') = Len(batch) + 1
          /\ batch'[Len(batch')].target = "add_device"
          /\ find_donor_device(doc, batch'[Len(batch')].device_tag) # <<>> )
        => LET donor == find_donor_device(doc, batch'[Len(batch')].device_tag)[1]
               inserted == ~res'.raised /\ res'.lines # <<>> /\ ~res'.lines[1].error
           IN  DeviceAt(doc', DonorAfter(doc, donor, doc', inserted)) = DeviceAt(doc, donor) ]_vars

\* a Compressor2 was inserted: the reset routine ran on the clone and
\* requested parameters were applied to it
C7_ResetAndParamsApplied ==
    /\ Succeeded
    /\ Cur.target = "add_device"
    /\ Cur.device_tag = "Compressor2"
    /\ Cur.params # <<>>

\* the parameter at path, where the device has it, holds v
HoldsAt(device, path, v) ==
    path \in DOMAIN device.nodes => OldAt(device, path) = <<v>>

Eq8AtDefaults(device) ==
    \A i \in 0..(NumBands - 1) : \A ps \in {"ParameterA", "ParameterB"} :
        /\ HoldsAt(device, <<BandTag(i), ps, "IsOn">>, "false")
        /\ HoldsAt(device, <<BandTag(i), ps, "Gain">>, "0")
        /\ HoldsAt(device, <<BandTag(i), ps, "Q">>, "0.7071067")

CompressorAtDefaults(device) ==
    /\ HoldsAt(device, <<"Threshold">>, "1.0")
    /\ HoldsAt(device, <<"Ratio">>, "2")
    /\ HoldsAt(device, <<"Attack">>, "10")
    /\ HoldsAt(device, <<"Release">>, "100")
    /\ HoldsAt(device, <<"DryWet">>, "1")
    /\ HoldsAt(device, <<"GainCompensation">>, "true")

\* C8: an Eq8 or Compressor2 inserted with no requested parameters has
\* every registered parameter at its registered default, whatever the donor
\* held and in whichever of the two forms the donor stores it.
C8_CloneAtDefaults ==
    ( /\ Succeeded
      /\ Cur.target = "add_device"
      /\ Cur.params = <<>>
      /\ Cur.device_tag \in {"Eq8", "Compressor2"} )
    => IF Cur.device_tag = "Eq8"
       THEN Eq8AtDefaults(DeviceAt(doc, Newest(doc)))
       ELSE CompressorAtDefaults(DeviceAt(doc, Newest(doc)))

\* C9: on a chain of n devices a successful add_device puts the new device
\* at index p when 0 <= p < n, and last for every other position.
C9_PositionOfNewDevice ==
    ( Succeeded /\ Cur.target = "add_device" )
    => LET n == Len(GetTrack(doc, Newest(doc)[1]).chain) - 1
           p == Cur.position
       IN  Newest(doc)[2] = IF 0 <= p /\ p < n THEN p + 1 ELSE n + 1

\* C10: a send request on a track with k send holders: with send_index
\* outside 0..k-1 it gives no line and changes nothing; with send_index in
\* 0..k-1 it changes the level of that holder and nothing else.
C10_SendIndex ==
    [][ ( /\ Len(batch') = Len(batch) + 1
          /\ batch'[Len(batch')].target = "send"
          /\ ResolveTrack(doc, batch'[Len(batch')]).ok
          /\ GetTrack(doc, ResolveTrack(doc, batch'[Len(batch')]).ref).mixer
          /\ db_to_linear(batch'[Len(batch')].value).ok
          /\ batch'[Len(batch')].value.t # "null" )
        => LET change == batch'[Len(batch')]
               ref == ResolveTrack(doc, change).ref
               track == GetTrack(doc, ref)
               k == IF track.hasSends THEN Len(track.sends) ELSE 0
               i == change.send_index
           IN  IF 0 <= i /\ i < k
               THEN /\ ~res'.raised
                    /\ doc' = PutTrack(doc, ref,
                          [track EXCEPT !.sends[i + 1] = GetTrack(doc', ref).sends[i + 1]])
                    /\ track.sends[i + 1] # <<>> =>
                          GetTrack(doc', ref).sends[i + 1]
                              = <<FloatStr(db_to_linear(change.value).v, AmpDigits)>>
               ELSE /\ ~res'.raised
                    /\ res'.lines = <<>>
                    /\ doc' = doc ]_vars

\* the track name is one of the reserved tokens
Reserved(name) ==
    Upper(name) \in {"MASTER", "MAIN"} \/ StartsWith(Upper(name), "RETURN:")

\* the places, in document order, of the listed tracks that carry the
\* requested name and, where one is requested, kind
SameName(d, change) ==
    SelectSeq(Upto(Len(d.tracks)),
              LAMBDA k : /\ d.tracks[k].name = <<change.track_name>>
                         /\ change.track_type \in {<<>>, <<d.tracks[k].tag>>})

\* nothing but the track at ref differs between d and e
OnlyAt(d, e, ref) == e = PutTrack(d, ref, GetTrack(e, ref))

\* a volume request has stored its value in the track at ref
VolumeStoredAt(e, ref, change) ==
    (change.target = "volume" /\ change.value.t = "num")
    => GetTrack(e, ref).volume \in
         {<<>>, <<FloatStr(db_to_linear(change.value).v, AmpDigits)>>}

\* C11: a request with a name that is no reserved token acts on the track
\* at position track_index of the listed tracks of that name (and kind),
\* in document order; with no such track, or track_index outside 0..len-1,
\* it fails with an error naming the requested track and no track changes.
C11_TrackByNameAndIndex ==
    [][ ( /\ Len(batch') = Len(batch) + 1
          /\ ~Reserved(batch'[Len(batch')].track_name) )
        => LET change == batch'[Len(batch')]
               found == SameName(doc, change)
               i == change.track_index
           IN  IF 0 <= i /\ i < Len(found)
               THEN /\ ~res'.raised
                    /\ \A k \in 1..Len(res'.lines) :
                         res'.lines[k].kind \notin {"no_track", "track_index"}
                    /\ OnlyAt(doc, doc', found[i + 1])
                    /\ VolumeStoredAt(doc', found[i + 1], change)
               ELSE /\ ~res'.raised
                    /\ Len(res'.lines) = 1
                    /\ res'.lines[1].error
                    /\ res'.lines[1].kind \in {"no_track", "track_index"}
                    /\ res'.lines[1].name = change.track_name
                    /\ doc' = doc ]_vars

\* C12: a request named MASTER or MAIN, in any letter case, acts on the
\* master element (the first MainTrack, else the first MasterTrack) and on
\* no listed track, also when a listed track carries that name; it fails
\* with the master-not-found error, the document unchanged, only when the
\* document has neither.
C12_MasterByReservedName ==
    [][ ( /\ Len(batch') = Len(batch) + 1
          /\ Upper(batch'[Len(batch')].track_name) \in {"MASTER", "MAIN"} )
        => LET change == batch'[Len(batch')]
               main == {k \in 1..Len(doc.masters) : doc.masters[k].tag = "MainTrack"}
               old == {k \in 1..Len(doc.masters) : doc.masters[k].tag = "MasterTrack"}
               m == IF main # {} THEN Least(main) ELSE Least(old)
           IN  /\ ~res'.raised
               /\ doc'.tracks = doc.tracks
               /\ IF main \cup old = {}
                  THEN /\ Len(res'.lines) = 1
                       /\ res'.lines[1].error
                       /\ res'.lines[1].kind = "no_master"
                       /\ doc' = doc
                  ELSE /\ \A k \in 1..Len(res'.lines) : res'.lines[k].kind # "no_master"
                       /\ OnlyAt(doc, doc', -m)
                       /\ VolumeStoredAt(doc', -m, change)
                       /\ change.target = "volume" => Len(res'.lines) = 1 ]_vars

\* a request named Master was applied to a document that has a listed
\* track of that name and the master element under the old tag only
C12_OldTagMasterSet ==
    /\ Succeeded
    /\ Cur.track_name = "Master"
    /\ Len(doc.masters) = 1
    /\ doc.masters[1].tag = "MasterTrack"
    /\ doc.masters[1].volume # <<"1">>
    /\ doc.tracks = NamedTracks

\* s occurs in t
Within(s, t) ==
    \E i \in 1..(Len(t) - Len(s) + 1) : SubSeq(t, i, i + Len(s) - 1) = s

\* C13: a request named RETURN: and a text acts on the first track, in
\* document order, that is a return track and whose name contains the
\* text; a track of another kind is never taken, and with no such return
\* track the request fails and the document is unchanged.
C13_ReturnBySubstring ==
    [][ ( /\ Len(batch') = Len(batch) + 1
          /\ StartsWith(batch'[Len(batch')].track_name, "RETURN:") )
        => LET change == batch'[Len(batch')]
               text == SubSeq(change.track_name, 8, Len(change.track_name))
               hits == {k \in 1..Len(doc.tracks) :
                          /\ doc.tracks[k].tag = "ReturnTrack"
                          /\ doc.tracks[k].name # <<>>
                          /\ Within(text, doc.tracks[k].name[1])}
           IN  /\ ~res'.raised
               /\ IF hits = {}
                  THEN /\ Len(res'.lines) = 1
                       /\ res'.lines[1].error
                       /\ res'.lines[1].kind = "no_return_track"
                       /\ doc' = doc
                  ELSE /\ Len(res'.lines) = 1
                       /\ ~res'.lines[1].error
                       /\ OnlyAt(doc, doc', Least(hits))
                       /\ VolumeStoredAt(doc', Least(hits), change) ]_vars

\* RETURN:Reverb was applied: the first return track with Reverb in its
\* name has the new volume, the audio track named Reverb has not
C13_FirstReturnSet ==
    /\ Succeeded
    /\ Cur.track_name = "RETURN:Reverb"
    /\ Len(batch) = 1
    /\ doc.tracks[7].volume # <<"1">>
    /\ doc.tracks[5].volume = <<"1">>
    /\ doc.tracks[8].volume = <<"1">>

ReadBack == calc.fn = "volume" /\ calc.back # <<>>

\* C15: for every x > -70, also just above -70, reading back what
\* db_to_linear(x) wrote gives a finite value within 0.01 dB of x, never
\* -inf.
C15_DbRoundTrip ==
    ( /\ ReadBack
      /\ calc.arg.t # "null"
      /\ Milli(calc.arg) > -70000 )
    => /\ calc.back[1] # <<>>
       /\ ~calc.back[1][1].inf
       /\ calc.back[1][1].m - Milli(calc.arg) \in -10..10

\* a stored amplitude was read
AmpRead ==
    /\ calc.fn \in {"volume", "stored_volume"}
    /\ calc.back # <<>>
    /\ calc.back[1] # <<>>

\* C16: encoder and decoder share the silence floor: db_to_linear gives
\* exactly the floor for an undefined input and every input <= -70, and
\* vol_to_db gives -inf exactly for the amplitudes at or below that floor
\* and 20 * log10(amplitude) for every larger one.
C16_SameFloor ==
    /\ ( /\ calc.fn = "volume"
         /\ calc.text # <<>>
         /\ (calc.arg.t = "null" \/ Milli(calc.arg) <= -70000) )
       => calc.text = <<FloatStr(SilenceFloor, AmpDigits)>>
    /\ AmpRead
       => IF ParseFloat(calc.text[1], AmpDigits).v <= SilenceFloor
          THEN calc.back[1][1].inf
          ELSE /\ ~calc.back[1][1].inf
               /\ calc.back[1][1].m = Log10Db(ParseFloat(calc.text[1], AmpDigits).v)

\* a pan string was encoded, written and read back
PanBack == calc.fn = "pan" /\ calc.back # <<>>

\* C17, as worded: pan_to_str(pan_str_to_value(s)) = s for C and for every
\* position 0..50 followed by L or R, and every value below 0.01 in size
\* reads as C.
C17_PanRoundTripFromZero ==
    /\ PanBack => calc.back[1] = calc.arg.s
    /\ (calc.fn = "stored_pan" /\ calc.back # <<>> /\ calc.text[1] # "abc")
       => calc.back[1] = "C"

\* C17: pan_to_str(pan_str_to_value(s)) = s for C and for every position
\* 1..50 followed by L or R; position 0, left or right, reads back as C,
\* as does every value below 0.01 in size.
C17_PanRoundTrip ==
    /\ PanBack
       => calc.back[1] = IF calc.arg.s \in {"0L", "0R"} THEN "C" ELSE calc.arg.s
    /\ (calc.fn = "stored_pan" /\ calc.back # <<>> /\ calc.text[1] # "abc")
       => calc.back[1] = "C"

\* 18R was encoded as 0.36 and read back as 18R
C17_EighteenRight ==
    /\ PanBack
    /\ calc.arg.s = "18R"
    /\ calc.text = <<"0.36">>
    /\ calc.back = <<"18R">>

\* C18: every request of a batch that apply_change returns from yields a
\* description or an error, never neither, whatever its target and
\* whatever holders the mixer of its track has.
C18_DescriptionOrFailure ==
    (batch # <<>> /\ ~res.raised) => res.lines # <<>>

\* C19: a fatal error ends the run with a non-zero status before any
\* request is applied and before output is written; once a request has
\* been applied, the run does not end without the output written.
C19_FatalOnlyBeforeRequests ==
    /\ (pc = "exit" /\ batch = <<>>) => (output = <<>> /\ doc = InputDoc)
    /\ (pc = "exit" /\ Len(batch) >= 2) => Len(output) = 1

\* C20: the grade is a function of floor(100 * sum / 600) alone: A from
\* 85, B from 70, C from 55, D from 40, F below; six scores of 100 give A,
\* six scores of 30 give F.
C20_GradeOfPercentage ==
    (calc.grade # <<>>)
    => LET pct == (100 * SumOf(calc.scores)) \div 600
       IN  /\ calc.grade[1] =
                 IF pct >= 85 THEN "A"
                 ELSE IF pct >= 70 THEN "B"
                 ELSE IF pct >= 55 THEN "C"
                 ELSE IF pct >= 40 THEN "D"
                 ELSE "F"
           /\ calc.scores = <<100, 100, 100, 100, 100, 100>> => calc.grade = <<"A">>
           /\ calc.scores = <<30, 30, 30, 30, 30, 30>> => calc.grade = <<"F">>

\* six scores of 30 were graded
C20_SixThirties ==
    /\ calc.scores = <<30, 30, 30, 30, 30, 30>>
    /\ calc.pct = <<30>>
    /\ calc.grade = <<"F">>

\* every listed track belongs to no group or to a group track of the
\* document
GroupsResolve(d) ==
    \A k \in 1..Len(d.tracks) :
        \/ d.tracks[k].group <= 0
        \/ \E j \in 1..Len(d.tracks) :
              /\ d.tracks[j].tag = "GroupTrack"
              /\ d.tracks[j].ids[1] = IntStr(d.tracks[k].group)

\* C21: no request, whatever it returns, changes the number of tracks, the
\* kind, the Id or the group id of a track; so where every track belongs to
\* no group or to an existing group track before a request, the same holds
\* after it.
C21_GroupsStayResolved ==
    [][ Len(batch') = Len(batch) + 1
        => /\ Len(doc'.tracks) = Len(doc.tracks)
           /\ Len(doc'.masters) = Len(doc.masters)
           /\ \A k \in 1..Len(doc.tracks) :
                /\ doc'.tracks[k].tag = doc.tracks[k].tag
                /\ doc'.tracks[k].ids = doc.tracks[k].ids
                /\ doc'.tracks[k].group = doc.tracks[k].group
           /\ GroupsResolve(doc) => GroupsResolve(doc') ]_vars

\* a device was added to the track that belongs to the group, after another
\* request; the track still refers to the group track
C21_AddedToGroupedTrack ==
    /\ Len(batch) = 2
    /\ Succeeded
    /\ Cur.target = "add_device"
    /\ Cur.track_name = "Drums"
    /\ doc.tracks[1].group = 13
    /\ doc.tracks[3].tag = "GroupTrack"
    /\ doc.tracks[3].ids = <<"13">>
    /\ GroupsResolve(doc)

\* the last request was an add_device that returned its description
Added(change, result) ==
    /\ change.target = "add_device"
    /\ ~result.raised
    /\ result.lines # <<>>
    /\ ~result.lines[1].error

\* the integers among the Id values of the document
IntIds(d) ==
    {ParseInt(AllIds(d)[k]).v : k \in {j \in 1..Len(AllIds(d)) : ParseInt(AllIds(d)[j]).ok}}

\* C22: a successful add_device gives the k Id-bearing elements of the
\* clone, in document order, the values M+1 .. M+k, M being the largest
\* integer Id of the document the request is applied to (so above the Ids a
\* clone got earlier in the batch), and leaves every other Id as it was.
C22_CloneIdsAboveMax ==
    [][ ( /\ Len(batch') = Len(batch) + 1
          /\ Added(batch'[Len(batch')], res') )
        => LET change == batch'[Len(batch')]
               M == CHOOSE m \in IntIds(doc) : \A x \in IntIds(doc) : x <= m
               ref == ResolveTrack(doc, change).ref
               donor == DeviceAt(doc, find_donor_device(doc, change.device_tag)[1])
               after == GetTrack(doc', ref).chain
           IN  /\ doc' = PutTrack(doc, ref, [GetTrack(doc, ref) EXCEPT !.chain = after])
               /\ \E k \in 1..Len(after) :
                    /\ Without(after, k) = GetTrack(doc, ref).chain
                    /\ after[k].ids = [i \in 1..Len(donor.ids) |-> IntStr(M + i)] ]_vars

\* two clones of the Compressor2 with its three Id-bearing elements were
\* inserted in one batch: the second got the Ids above those of the first
C22_SecondAboveFirst ==
    /\ Len(batch) = 2
    /\ Len(descs) = 2
    /\ \A k \in 1..2 : batch[k].target = "add_device" /\ batch[k].device_tag = "Compressor2"
    /\ \E pl \in PlaceSet(doc) : DeviceAt(doc, pl).ids = <<"41", "42", "43">>
    /\ \E pl \in PlaceSet(doc) : DeviceAt(doc, pl).ids = <<"44", "45", "46">>

\* C23: writing at a slash-separated path: where every step exists and the
\* element has a Manual child, the value goes to the child and the
\* element's own attribute stays; where it has no such child but a Value
\* attribute, the value goes to the attribute; otherwise the write fails
\* and the device is as it was.  What was written is what is read back.
C23_NestedThenBare ==
    (calc.set # <<>>)
    => LET parts == Split(calc.path)
           nodes == calc.device.nodes
           found == \A k \in 1..Len(parts) : SubSeq(parts, 1, k) \in DOMAIN nodes
           holder == parts \o <<"Manual">>
           out == calc.set[1]
       IN  /\ IF found /\ holder \in DOMAIN nodes
              THEN /\ out.ok
                   /\ out.device.nodes[holder] = <<calc.text>>
                   /\ out.device.nodes[parts] = nodes[parts]
                   /\ \A p \in DOMAIN nodes : p # holder => out.device.nodes[p] = nodes[p]
              ELSE IF found /\ nodes[parts] # <<>>
              THEN /\ out.ok
                   /\ out.device.nodes[parts] = <<calc.text>>
                   /\ \A p \in DOMAIN nodes : p # parts => out.device.nodes[p] = nodes[p]
              ELSE /\ ~out.ok
                   /\ out.device = calc.device
           /\ DOMAIN out.device.nodes = DOMAIN nodes
           /\ out.device.ids = calc.device.ids
           /\ (calc.got # <<>> /\ out.ok) => calc.got = <<<<calc.text>>>>

\* Threshold of the device that has it in both forms was written: the
\* Manual child has the value, the attribute of Threshold itself its old one
C23_WrittenToNested ==
    /\ calc.fn = "param"
    /\ calc.device.tag = "Gate"
    /\ calc.path = "Threshold"
    /\ calc.text = "7"
    /\ calc.device.nodes[<<"Threshold">>] = <<"0.1">>
    /\ calc.set # <<>>
    /\ calc.set[1].ok
    /\ calc.set[1].device.nodes[<<"Threshold", "Manual">>] = <<"7">>
    /\ calc.set[1].device.nodes[<<"Threshold">>] = <<"0.1">>
    /\ calc.got = <<<<"7">>>>

\* C24: a device_param request on a track whose chain holds count devices
\* of the requested tag: with device_index in 0..count-1 it addresses the
\* device at that position among them and nothing outside that device
\* changes; with any other device_index, or no such device, it returns the
\* device-not-found error and the document is unchanged.
C24_DeviceByTagAndIndex ==
    [][ ( /\ Len(batch') = Len(batch) + 1
          /\ batch'[Len(batch')].target = "device_param"
          /\ ResolveTrack(doc, batch'[Len(batch')]).ok )
        => LET change == batch'[Len(batch')]
               ref == ResolveTrack(doc, change).ref
               track == GetTrack(doc, ref)
               found == SelectSeq(Upto(Len(track.chain)),
                                  LAMBDA k : track.chain[k].tag = change.device_tag)
               i == change.device_index
           IN  IF 0 <= i /\ i < Len(found)
               THEN /\ ~res'.raised
                    /\ \A k \in 1..Len(res'.lines) : res'.lines[k].kind # "no_device"
                    /\ doc' = PutTrack(doc, ref,
                          [track EXCEPT !.chain[found[i + 1]] =
                              GetTrack(doc', ref).chain[found[i + 1]]])
               ELSE /\ ~res'.raised
                    /\ Len(res'.lines) = 1
                    /\ res'.lines[1].error
                    /\ res'.lines[1].kind = "no_device"
                    /\ doc' = doc ]_vars

\* C25: after every successful add_device the device that was inserted is
\* enabled: its On reads true, whether On holds the flag in a Manual child
\* or in its own Value attribute, and also when the donor was disabled.
C25_InsertedDeviceEnabled ==
    ( Succeeded /\ Cur.target = "add_device" )
    => get_param_value(DeviceAt(doc, Newest(doc)), "On") = <<"true">>

\* the same request with the other of the two volume targets
VolumeTwin(change) ==
    [change EXCEPT !.target = IF @ = "volume" THEN "group_volume" ELSE "volume"]

C27_OneChainOneMore ==
    [][ ( /\ Len(batch') = Len(batch) + 1
          /\ Added(batch'[Len(batch')], res') )
        => LET ref == ResolveTrack(doc, batch'[Len(batch')]).ref
               had == GetTrack(doc, ref).chain
               has == GetTrack(doc', ref).chain
           IN  /\ Len(has) = Len(had) + 1
               /\ \A r \in (1..Len(doc.tracks)) \cup {-k : k \in 1..Len(doc.masters)} :
                    r # ref => GetTrack(doc', r).chain = GetTrack(doc, r).chain
               /\ \E k \in 1..Len(has) :
                    /\ Without(has, k) = had
                    /\ Cardinality({pl \in PlaceSet(doc') : DeviceAt(doc', pl) = has[k]}) = 1
                    /\ \A pl \in PlaceSet(doc) : DeviceAt(doc, pl) # has[k] ]_vars

\* a device was put between the two devices of a chain
C27_InsertedBetween ==
    /\ Succeeded
    /\ Cur.target = "add_device"
    /\ Cur.position = 1
    /\ Len(doc.tracks[1].chain) = 3
    /\ doc.tracks[1].chain[1] = InputDoc.tracks[1].chain[1]
    /\ doc.tracks[1].chain[2].tag = "Compressor2"
    /\ doc.tracks[1].chain[3] = InputDoc.tracks[1].chain[2]

\* the places of a track that hold a value: the volume and pan holders, the
\* send holders, the elements of its devices
Slot(kind, i, path) == [kind |-> kind, i |-> i, path |-> path]

Slots(t) ==
    {Slot("volume", 0, <<>>), Slot("pan", 0, <<>>)}
    \cup {Slot("send", k, <<>>) : k \in 1..Len(t.sends)}
    \cup UNION {{Slot("device", j, p) : p \in DOMAIN t.chain[j].nodes} : j \in 1..Len(t.chain)}

ValueOf(t, s) ==
    CASE s.kind = "volume" -> t.volume
      [] s.kind = "pan" -> t.pan
      [] s.kind = "send" -> t.sends[s.i]
      [] s.kind = "device" -> t.chain[s.i].nodes[s.path]

WithValue(t, s, v) ==
    CASE s.kind = "volume" -> [t EXCEPT !.volume = v]
      [] s.kind = "pan" -> [t EXCEPT !.pan = v]
      [] s.kind = "send" -> [t EXCEPT !.sends[s.i] = v]
      [] s.kind = "device" -> [t EXCEPT !.chain[s.i].nodes[s.path] = v]

\* the kind of place a target writes to
SlotKind(target) ==
    CASE target \in {"volume", "group_volume"} -> "volume"
      [] target = "device_param" -> "device"
      [] OTHER -> target

\* C28: a volume, pan, send, device_param or group_volume request, whatever
\* it returns, leaves the document as it was or changes one value in it, a
\* value of the kind the target names in the track the request resolves to:
\* no element and no attribute is added, removed or moved, no Id changes.
\* Devices and Ids are added by add_device only.
C28_OneValueOfTheTarget ==
    [][ ( /\ Len(batch') = Len(batch) + 1
          /\ batch'[Len(batch')].target # "add_device" )
        => LET change == batch'[Len(batch')]
               at == ResolveTrack(doc, change)
           IN  /\ AllIds(doc') = AllIds(doc)
               /\ DevicePlaces(doc') = DevicePlaces(doc)
               /\ \/ doc' = doc
                  \/ /\ at.ok
                     /\ \E s \in Slots(GetTrack(doc, at.ref)) :
                          /\ s.kind = SlotKind(change.target)
                          /\ s.kind = "device" =>
                               GetTrack(doc, at.ref).chain[s.i].tag = change.device_tag
                          /\ ValueOf(GetTrack(doc, at.ref), s) # <<>>
                          /\ ValueOf(GetTrack(doc', at.ref), s) # <<>>
                          /\ doc' = PutTrack(doc, at.ref,
                                WithValue(GetTrack(doc, at.ref), s,
                                          ValueOf(GetTrack(doc', at.ref), s))) ]_vars

\* a pan request and then a device_param request were applied, each to its
\* one value
C28_PanThenGain ==
    /\ Len(batch) = 2
    /\ Len(descs) = 2
    /\ batch[1].target = "pan"
    /\ batch[2].target = "device_param"
    /\ doc.tracks[1].pan = <<"0.36">>
    /\ doc.tracks[1].chain[1].nodes[<<"Bands.0", "ParameterA", "Gain">>] = <<"1.5">>
    /\ doc.tracks[1].volume = InputDoc.tracks[1].volume

\* C29: a volume, pan, send, device_param or group_volume request applied
\* right after the same request was applied leaves the document as the
\* first application left it; an add_device request that inserted a device
\* inserts, applied again, one more device with Ids the document did not
\* have.
C29_RepeatedRequest ==
    [][ ( /\ Len(batch) >= 1
          /\ Len(batch') = Len(batch) + 1
          /\ batch'[Len(batch')] = batch[Len(batch)]
          /\ ~res.raised )
        => IF Cur.target \in {"volume", "pan", "send", "device_param", "group_volume"}
           THEN /\ doc' = doc
                /\ ~res'.raised
           ELSE Added(Cur, res)
                => /\ Added(Cur, res')
                   /\ Len(DevicePlaces(doc')) = Len(DevicePlaces(doc)) + 1
                   /\ IdsUnique(doc')
                   /\ \E pl \in PlaceSet(doc') :
                        \A i \in 1..Len(DeviceAt(doc', pl).ids) :
                            \A j \in 1..Len(AllIds(doc)) :
                                DeviceAt(doc', pl).ids[i] # AllIds(doc)[j] ]_vars

\* the same send request was applied twice in a row and set the level
C29_SendTwice ==
    /\ Len(batch) = 2
    /\ batch[1] = batch[2]
    /\ Cur.target = "send"
    /\ Len(descs) = 2
    /\ descs[1].old # descs[1].new
    /\ descs[2].old = descs[2].new
    /\ doc # InputDoc

\* C30: with an empty or absent list of changes the run ends, with status
\* 0, before the loop and before the output is written: a run that ends
\* without a request handed to apply_change has written nothing and left
\* the document as read, and the loop and the write after it are reached
\* with at least one request only.
C30_NothingForNoChanges ==
    /\ (pc = "exit" /\ batch = <<>>)
       => /\ status \in {0, 1}
          /\ output = <<>>
          /\ doc = InputDoc
          /\ descs = <<>> /\ errors = <<>>
    /\ (pc = "apply" /\ batch = <<>>) => todo > 0
    /\ (pc = "exit" /\ status = 0 /\ output # <<>>) => batch # <<>>

\* the run of an empty list of changes has ended
C30_EndedWithoutChanges ==
    /\ pc = "exit"
    /\ status = 0
    /\ batch = <<>>
    /\ todo = 0
    /\ output = <<>>

====
